---- MODULE Spec2Model ----
(***************************************************************************)
(* The SISTEMA_INTELIGENTE tool of src/server/tools.ts (the resolution     *)
(* engine, `resolve`) together with the Brasil API provider functions of   *)
(* src/server/provider/brasil-api.ts it calls.                             *)
(*                                                                         *)
(* One execution of the tool's `execute` handler is modelled step by step: *)
(* the handler is an async function, so every `await` (the AI race and     *)
(* each HTTP fetch) is a point where the environment answers.  The code    *)
(* between two awaits runs to completion inside one action.                *)
(*                                                                         *)
(* JavaScript values: a string is a TLA+ string and "" stands for every    *)
(* falsy string-like value (null, undefined, ""), which is all the code    *)
(* ever tests; an optional object is a sequence of length 0 or 1; a user   *)
(* facing message is a sequence of text fragments, <<>> being "".          *)
(***************************************************************************)
EXTENDS Integers, Sequences, FiniteSets, TLC

VARIABLES
    aiAvailable,      \* env.DECO_CHAT_WORKSPACE_API?.AI_GENERATE_OBJECT is set
    pc,               \* position of the handler: the await it is suspended at
    scenario,         \* which "Cenário" branch of execute is running (0: none yet)
    userInput,        \* what the extractors compute from context.userInput
    aiInterpretation, \* tools.ts:1192, the value the AI race produced
    interpretation,   \* tools.ts:1300
    cityName,         \* tools.ts:1391 / 1496
    stateName,        \* tools.ts:1392
    zipcodeData,      \* brasil-api.ts:312, the local of postcodeAndForecast
    filteredCities,   \* brasil-api.ts:254, the local of searchCityAndForecast
    action,           \* tools.ts:1184
    executedAction,   \* tools.ts:1183
    initialMessage,   \* tools.ts:1181
    finalMessage,     \* tools.ts:1182
    zipCodeData,      \* tools.ts:1185
    weatherData,      \* tools.ts:1186
    citiesFound,      \* tools.ts:1187
    calls,            \* the provider requests issued so far, in order
    replies,          \* what each request of `calls` came back with
    raised,           \* an exception left execute
    earlier,          \* the previous call of execute on the same text, if any
    text,             \* zipcode.ts:57, the argument of extractZipCode
    extracted,        \* zipcode.ts:57, the value extractZipCode returned
    aiPromise,        \* tools.ts:1197
    timeoutPromise,   \* tools.ts:1255
    racePromise,      \* tools.ts:1260, the promise Promise.race returns
    requests,         \* brasil-api.ts:66, the calls of makeRequest
    messagesTable,    \* tools.ts:1707, the rows of the conversation, by createdAt
    sendMessage,      \* tools.ts:1691, the locals of the last SEND_MESSAGE
    messages,         \* part_005:26, the messages the chat view shows
    submitted         \* part_005:206, the locals of the last handleSubmit

vars == <<aiAvailable, pc, scenario, userInput, aiInterpretation, interpretation,
          cityName, stateName, zipcodeData, filteredCities, action,
          executedAction, initialMessage, finalMessage, zipCodeData,
          weatherData, citiesFound, calls, replies, raised, earlier, text,
          extracted, aiPromise, timeoutPromise, racePromise, requests,
          messagesTable, sendMessage, messages, submitted>>

\* the state of execute and of extractZipCode
executeVars ==
    <<aiAvailable, pc, scenario, userInput, aiInterpretation, interpretation,
      cityName, stateName, zipcodeData, filteredCities, action,
      executedAction, initialMessage, finalMessage, zipCodeData, weatherData,
      citiesFound, calls, replies, raised, earlier, text, extracted, aiPromise,
      timeoutPromise, racePromise>>

\* the state of the programs modelled apart from execute
restVars == <<requests, messagesTable, sendMessage, messages, submitted>>

(***************************************************************************)
(* Bounds of the model.                                                    *)
(***************************************************************************)
\* the longest list the city-search provider answers with
MaxCities == 6

None == <<>>
Some(x) == <<x>>
IsSome(o) == Len(o) = 1
Get(o) == o[1]

\* JavaScript `a || b` on strings
OrElse(a, b) == IF a # "" THEN a ELSE b

(***************************************************************************)
(* src/common/consts/constants.ts                                          *)
(***************************************************************************)
\* the ACTIONS table (ACTIONS is a reserved word of TLA+)
Actions ==
    [ CONSULT_ZIP_CODE |-> "CONSULT_ZIP_CODE",
      CONSULT_ZIP_CODE_AND_WEATHER |-> "CONSULT_ZIP_CODE_AND_WEATHER",
      CONSULT_WEATHER_DIRECT |-> "CONSULT_WEATHER_DIRECT",
      REQUEST_ZIP_CODE |-> "REQUEST_ZIP_CODE",
      REQUEST_LOCATION |-> "REQUEST_LOCATION",
      OUT_OF_SCOPE |-> "OUT_OF_SCOPE",
      MULTIPLE_CITIES |-> "MULTIPLE_CITIES",
      CITY_NOT_FOUND |-> "CITY_NOT_FOUND" ]

\* the value of a JavaScript property read that finds no such property
Undefined == "undefined"

\* ACTIONS.<name> as JavaScript evaluates it
ActionsGet(name) ==
    IF name \in DOMAIN Actions THEN Actions[name] ELSE Undefined

ActionTags == { Actions[k] : k \in DOMAIN Actions }

(***************************************************************************)
(* Errors.  An Error is its message, a sequence of text fragments.  A      *)
(* function that may throw yields a completion: ok with a value, or not ok *)
(* with the error thrown.                                                  *)
(***************************************************************************)
Ok(v) == [ok |-> TRUE, value |-> Some(v), error |-> <<>>]
Err(message) == [ok |-> FALSE, value |-> None, error |-> message]

\* config.timeout / 1000 of loadBrasilApiConfig, as it is printed
TimeoutSeconds == "30"

(***************************************************************************)
(* What the network can answer to one fetch + response.json(): a 2xx       *)
(* response with a JSON body, a non-2xx status, the abort of the request   *)
(* by the timeout timer, a network failure, or a body that is not JSON.    *)
(* Bodies follow the declared shape of the provider (CitySearchResult[],   *)
(* WeatherForecastResult, ZipCodeResult), any field possibly missing.      *)
(***************************************************************************)
HttpOk(body) == [kind |-> "ok", status |-> "200", body |-> Some(body)]
HttpStatus(status) == [kind |-> "status", status |-> status, body |-> None]
HttpAbort == [kind |-> "abort", status |-> "", body |-> None]
HttpNetworkError == [kind |-> "network", status |-> "", body |-> None]
HttpBadJson == [kind |-> "badjson", status |-> "200", body |-> None]

HttpFailures ==
    { HttpStatus("404"), HttpStatus("500"), HttpAbort, HttpNetworkError,
      HttpBadJson }

\* makeRequest(url, config, errorMessage) on the answer `resp`
makeRequest(resp, errorMessage) ==
    CASE resp.kind = "ok" -> Ok(Get(resp.body))
      [] resp.kind = "abort" ->
            Err(<<"Timeout: ", errorMessage, " demorou mais que ",
                  TimeoutSeconds, " segundos">>)
      [] resp.kind = "status" /\ resp.status = "404" ->
            Err(<<errorMessage, ": ", "Recurso não encontrado">>)
      [] resp.kind = "status" /\ resp.status # "404" ->
            Err(<<errorMessage, ": ", "API Error: ", resp.status>>)
      [] resp.kind = "network" ->
            Err(<<errorMessage, ": ", "fetch failed">>)
      [] resp.kind = "badjson" ->
            Err(<<errorMessage, ": ", "Unexpected token in JSON">>)
      [] OTHER -> Err(<<"Erro interno do servidor">>)

(***************************************************************************)
(* The address provider.                                                   *)
(***************************************************************************)
ZipCodeResult(cep, state, city, neighborhood, street) ==
    [cep |-> cep, state |-> state, city |-> city,
     neighborhood |-> neighborhood, street |-> street]

AddressBodies ==
    { ZipCodeResult("01310100", "SP", "Ibitinga", "Centro", "Rua A"),
      ZipCodeResult("01310-100", "SP", "Ibitinga", "Centro", "Rua A"),
      ZipCodeResult("01310100", "SP", "Ibitinga", "", ""),
      ZipCodeResult("01310100", "sp", "Ibitinga", "Centro", "Rua A"),
      ZipCodeResult("", "SP", "Ibitinga", "Centro", "Rua A"),
      ZipCodeResult("01310100", "", "Ibitinga", "Centro", "Rua A"),
      ZipCodeResult("01310100", "SP", "", "Centro", "Rua A") }

AddressReplies == { HttpOk(b) : b \in AddressBodies } \cup HttpFailures

\* postcode(zipcode, config) on the answer `resp`
\* postcode as it would be without the check of brasil-api.ts:177-179
postcodeUnvalidated(resp) == makeRequest(resp, "Erro na consulta do CEP")

postcode(resp) ==
    LET r == makeRequest(resp, "Erro na consulta do CEP") IN
    IF ~r.ok THEN r
    ELSE LET result == Get(r.value) IN
         IF result.cep = "" \/ result.state = "" \/ result.city = ""
         THEN Err(<<"Dados incompletos da API">>)
         ELSE Ok(result)

(***************************************************************************)
(* The city-search provider.  It answers with any sub-list, in order, of   *)
(* a fixed catalogue of MaxCities cities: names repeat across states and   *)
(* states repeat across names, ids are not in ascending order.             *)
(***************************************************************************)
StateCodes == <<"SP", "RJ", "MG">>
CityNames == <<"Ibitinga", "Ibitinga do Sul">>

CityAt(i) ==
    [id |-> 4000 + (MaxCities - i),
     nome |-> CityNames[(i % 2) + 1],
     estado |-> StateCodes[((i - 1) % 3) + 1]]

RECURSIVE SubList(_, _)
SubList(S, i) ==
    IF i > MaxCities THEN <<>>
    ELSE IF i \in S THEN <<CityAt(i)>> \o SubList(S, i + 1)
         ELSE SubList(S, i + 1)

CityLists == { SubList(S, 1) : S \in SUBSET (1..MaxCities) }

CityReplies == { HttpOk(l) : l \in CityLists } \cup HttpFailures

\* searchCity(cityName, config) on the answer `resp`
searchCity(resp) == makeRequest(resp, "Erro na busca de cidades")

(***************************************************************************)
(* The weather provider.                                                   *)
(***************************************************************************)
Day(data, condition, condicao_desc, min, max, indice_uv) ==
    [data |-> data, condition |-> condition, condicao_desc |-> condicao_desc,
     min |-> min, max |-> max, indice_uv |-> indice_uv]

\* clima is None when the field is missing; an empty array is a value
WeatherForecastResult(cidade, estado, atualizado_em, clima) ==
    [cidade |-> cidade, estado |-> estado, atualizado_em |-> atualizado_em,
     clima |-> clima]

DayA == Day("2025-08-02", "pn", "Parcialmente Nublado", 14, 27, 8)
DayB == Day("2025-08-01", "c", "Chuva", 12, 20, 3)
DaySparse == Day("", "", "", 0, 0, 0)

ForecastBodies ==
    { WeatherForecastResult("Ibitinga", "SP", "2025-08-01", Some(<<DayA, DayB>>)),
      WeatherForecastResult("Ibitinga", "SP", "", Some(<<DaySparse>>)),
      WeatherForecastResult("Ibitinga", "SP", "2025-08-01", Some(<<>>)),
      WeatherForecastResult("", "SP", "2025-08-01", Some(<<DayA>>)),
      WeatherForecastResult("Ibitinga", "", "2025-08-01", Some(<<DayA>>)),
      WeatherForecastResult("Ibitinga", "SP", "2025-08-01", None) }

ForecastReplies == { HttpOk(b) : b \in ForecastBodies } \cup HttpFailures

\* forecast(cityCode, config) on the answer `resp`
forecast(resp) ==
    LET r == makeRequest(resp, "Erro na consulta de previsão do tempo") IN
    IF ~r.ok THEN r
    ELSE LET result == Get(r.value) IN
         IF result.cidade = "" \/ result.estado = "" \/ ~IsSome(result.clima)
         THEN Err(<<"Dados incompletos da API de previsão do tempo">>)
         ELSE Ok(result)

(***************************************************************************)
(* searchCityAndForecast, the part that runs once the city list is there.  *)
(***************************************************************************)
\* String.prototype.toLowerCase on the state codes that occur
toLowerCase(s) ==
    CASE s = "SP" -> "sp" [] s = "RJ" -> "rj" [] s = "MG" -> "mg"
      [] OTHER -> s

\* the filter as it would be without its case-insensitive comparison
StateMatchesExactly(city, state) == city.estado = state

\* the predicate of cities.filter(...), brasil-api.ts:257
StateMatches(city, state) ==
    \/ city.estado = state
    \/ toLowerCase(city.estado) = toLowerCase(state)

\* Array.prototype.filter with StateMatches
FilterByState(cities, state) ==
    SelectSeq(cities, LAMBDA city : StateMatches(city, state))

\* filteredCities as it would be if the state were never applied
FilteredCitiesIgnoringState(cities, state) == cities

\* filteredCities of searchCityAndForecast
FilteredCities(cities, state) ==
    IF state # "" /\ Len(cities) > 0 THEN FilterByState(cities, state)
    ELSE cities

\* the value searchCityAndForecast resolves to
CityResult(cities, weather, multipleCities) ==
    [cities |-> cities, weather |-> weather, multipleCities |-> multipleCities]

\* the decision as it would be if the first of several remaining cities
\* were taken, as the SEND_MESSAGE tool of tools.ts:563 does
ResultTakingFirst(cities, state) ==
    LET filtered == FilteredCities(cities, state) IN
    IF Len(cities) = 0 THEN Some(CityResult(<<>>, None, FALSE))
    ELSE IF Len(filtered) > 1 /\ state = ""
         THEN Some(CityResult(filtered, None, TRUE))
    ELSE IF Len(filtered) >= 1 THEN None
    ELSE Some(CityResult(filtered, None, FALSE))

\* the return taken without asking for a forecast, or None when the
\* forecast of the single remaining city is to be fetched
ResultBeforeForecast(cities, state) ==
    LET filtered == FilteredCities(cities, state) IN
    IF Len(cities) = 0 THEN Some(CityResult(<<>>, None, FALSE))
    ELSE IF Len(filtered) > 1 /\ state = ""
         THEN Some(CityResult(filtered, None, TRUE))
    ELSE IF Len(filtered) = 1 THEN None
    ELSE Some(CityResult(filtered, None, FALSE))

(***************************************************************************)
(* The payloads execute builds from provider results.                      *)
(***************************************************************************)
NaoInformado == "Não informado"

\* the payload as it would be with city and state taken from each other
ToZipCodeDataSwapped(z) ==
    [zipcode |-> z.cep, state |-> z.city, city |-> z.state,
     neighborhood |-> OrElse(z.neighborhood, NaoInformado),
     street |-> OrElse(z.street, NaoInformado)]

\* zipCodeData = {...}, tools.ts:1327 and 1369
ToZipCodeData(z) ==
    [zipcode |-> z.cep, state |-> z.state, city |-> z.city,
     neighborhood |-> OrElse(z.neighborhood, NaoInformado),
     street |-> OrElse(z.street, NaoInformado)]

\* one element of result.weather.clima.map(...); `n || 0` is n for a number
ToWeatherDay(day) ==
    [date |-> OrElse(day.data, NaoInformado),
     condition |-> OrElse(day.condition, NaoInformado),
     conditionDescription |-> OrElse(day.condicao_desc, NaoInformado),
     minimum |-> day.min, maximum |-> day.max, uvIndex |-> day.indice_uv]

\* weatherData = {...}, tools.ts:1336, 1436 and 1514
ToWeatherData(w) ==
    [city |-> w.cidade, state |-> w.estado,
     updatedAt |-> OrElse(w.atualizado_em, NaoInformado),
     weather |-> [i \in 1..Len(Get(w.clima)) |-> ToWeatherDay(Get(w.clima)[i])]]

\* one element of result.cities.map(...), tools.ts:1423
ToCityFound(city) == [id |-> city.id, name |-> city.nome, state |-> city.estado]

\* citiesFound = result.cities.map(...)
ToCitiesFound(cities) == [i \in 1..Len(cities) |-> ToCityFound(cities[i])]

(***************************************************************************)
(* The interpretation of the input, tools.ts:1191-1312.                    *)
(***************************************************************************)
ZipCodes == {"01310100"}

\* what the three extractors called at tools.ts:1287-1289 find in the text
UserInputs ==
    [extractZipCode : {""} \cup ZipCodes,
     hasWeatherKeyword : BOOLEAN,
     isContextualWeatherQuery : BOOLEAN,
     extractCityAndState : {None},
     extractBestCityName : {""}]

\* what extractCityAndState(userInput) finds, when it is called
CityAndStateResults == {None, Some([city |-> "Ibitinga", state |-> "SP"])}

\* what extractBestCityName(userInput) finds, when it is called
BestCityNameResults == {"", "Ibitinga"}

\* the objects AI_GENERATE_OBJECT can answer with (its schema, tools.ts:1227)
AiTipos == {"CEP", "CLIMA", "CEP_E_CLIMA", "CONTEXTUAL", "OUTROS"}

AiObjects ==
    [tipo : AiTipos, cep : {""}, cidade : {"", "Ibitinga"},
     estado : {"", "SP", "sp"}, contextual : BOOLEAN]

\* the fallback as it would be if a ZIP code hid the weather keyword
TraditionalAnalysisZipFirst(input) ==
    [tipo |-> IF input.extractZipCode # "" THEN "CEP"
              ELSE (IF input.hasWeatherKeyword THEN "CLIMA" ELSE "OUTROS"),
     cep |-> input.extractZipCode,
     cidade |-> "",
     estado |-> "",
     contextual |-> input.isContextualWeatherQuery]

\* the fallback of tools.ts:1300-1312
TraditionalAnalysis(input) ==
    [tipo |-> IF input.extractZipCode # ""
              THEN (IF input.hasWeatherKeyword THEN "CEP_E_CLIMA" ELSE "CEP")
              ELSE (IF input.hasWeatherKeyword THEN "CLIMA" ELSE "OUTROS"),
     cep |-> input.extractZipCode,
     cidade |-> "",
     estado |-> "",
     contextual |-> input.isContextualWeatherQuery]

\* interpretation = aiInterpretation?.object || {...}
Interpretation(ai, input) ==
    IF IsSome(ai) /\ IsSome(Get(ai).object) THEN Get(Get(ai).object)
    ELSE TraditionalAnalysis(input)

\* the chain as it would be if the contextual branch were its last else
ScenarioContextualByDefault(interp, input) ==
    IF \/ interp.tipo = "CEP_E_CLIMA"
       \/ (input.extractZipCode # "" /\ input.hasWeatherKeyword)
    THEN 1
    ELSE IF interp.tipo = "CEP" \/ input.extractZipCode # "" THEN 2
    ELSE IF interp.tipo = "CLIMA" \/ input.hasWeatherKeyword THEN 3
    ELSE 4

\* the chain as it would be if each branch tested the kind alone
ScenarioOfKindAlone(interp, input) ==
    IF interp.tipo = "CEP_E_CLIMA" THEN 1
    ELSE IF interp.tipo = "CEP" THEN 2
    ELSE IF interp.tipo = "CLIMA" THEN 3
    ELSE IF interp.tipo = "CONTEXTUAL" \/ interp.contextual THEN 4
    ELSE 5

\* the branch of the if / else-if chain of tools.ts:1318-1559 that is taken
Scenario(interp, input) ==
    LET extractedZipCode == input.extractZipCode
        hasWeatherRequest == input.hasWeatherKeyword
        isContextualQuery == input.isContextualWeatherQuery
    IN
    IF interp.tipo = "CEP_E_CLIMA" \/ (extractedZipCode # "" /\ hasWeatherRequest)
    THEN 1
    ELSE IF interp.tipo = "CEP" \/ extractedZipCode # "" THEN 2
    ELSE IF interp.tipo = "CLIMA" \/ hasWeatherRequest THEN 3
    ELSE IF \/ interp.tipo = "CONTEXTUAL"
            \/ interp.contextual
            \/ isContextualQuery
            \/ (/\ hasWeatherRequest
                /\ ~IsSome(input.extractCityAndState)
                /\ input.extractBestCityName = "")
    THEN 4
    ELSE 5

\* const cepToUse = interpretation.cep || extractedZipCode
CepToUse(interp, input) == OrElse(interp.cep, input.extractZipCode)

(***************************************************************************)
(* try / catch.  The catch blocks that enclose each await of a scenario,   *)
(* innermost first; an error thrown there is handled by the first one.     *)
(***************************************************************************)
\* the try blocks as they would be without the catch of postcodeAndForecast
\* (brasil-api.ts:327) and that of searchCityAndForecast (brasil-api.ts:280)
EnclosingWithoutDegrade(sc, site) ==
    CASE sc = 1 -> <<"cenario1", "execute">>
      [] sc = 2 -> <<"cenario2", "execute">>
      [] sc = 3 -> <<"cenario3", "execute">>
      [] sc = 4 -> <<"cenario4", "execute">>
      [] site = "ai" -> <<"ai">>
      [] OTHER -> <<"execute">>

\* execute as it would be with no try block at all
EnclosingNothing(sc, site) == <<>>

\* the try blocks as they would be if the AI call had no try of its own
\* and stood inside the try of tools.ts:1317
EnclosingAiByExecute(sc, site) ==
    CASE sc = 1 /\ site = "postcode" -> <<"cenario1", "execute">>
      [] sc = 1 /\ site = "searchCity" ->
            <<"postcodeAndForecast", "cenario1", "execute">>
      [] sc = 1 /\ site = "forecast" ->
            <<"searchCityAndForecast", "postcodeAndForecast", "cenario1",
              "execute">>
      [] sc = 2 /\ site = "postcode" -> <<"cenario2", "execute">>
      [] sc = 3 /\ site = "searchCity" -> <<"cenario3", "execute">>
      [] sc = 3 /\ site = "forecast" ->
            <<"searchCityAndForecast", "cenario3", "execute">>
      [] sc = 4 /\ site = "searchCity" -> <<"cenario4", "execute">>
      [] sc = 4 /\ site = "forecast" ->
            <<"searchCityAndForecast", "cenario4", "execute">>
      [] OTHER -> <<"execute">>

Enclosing(sc, site) ==
    CASE sc = 1 /\ site = "postcode" -> <<"cenario1", "execute">>
      [] sc = 1 /\ site = "searchCity" ->
            <<"postcodeAndForecast", "cenario1", "execute">>
      [] sc = 1 /\ site = "forecast" ->
            <<"searchCityAndForecast", "postcodeAndForecast", "cenario1",
              "execute">>
      [] sc = 2 /\ site = "postcode" -> <<"cenario2", "execute">>
      [] sc = 3 /\ site = "searchCity" -> <<"cenario3", "execute">>
      [] sc = 3 /\ site = "forecast" ->
            <<"searchCityAndForecast", "cenario3", "execute">>
      [] sc = 4 /\ site = "searchCity" -> <<"cenario4", "execute">>
      [] sc = 4 /\ site = "forecast" ->
            <<"searchCityAndForecast", "cenario4", "execute">>
      [] site = "ai" -> <<"ai">>
      [] OTHER -> <<"execute">>

\* error instanceof Error ? error.message : "Erro desconhecido"
ErrorText(error) == error

\* the catch blocks as they would be if each were the generic one of
\* tools.ts:1560, which drops the error
CatchGeneric(handler, error) ==
    [action |-> ActionsGet("OUT_OF_SCOPE"),
     executedAction |-> <<"Erro interno">>,
     initialMessage |-> <<"Ocorreu um erro interno.">>,
     finalMessage |-> <<"Tente novamente em alguns instantes.">>]

\* the four assignments of each catch block of execute
Catch(handler, error) ==
    CASE handler = "cenario1" ->
            [action |-> ActionsGet("OUT_OF_SCOPE"),
             executedAction |-> <<"Erro na consulta">>,
             initialMessage |->
                <<"Erro ao consultar CEP e previsão: ">> \o ErrorText(error),
             finalMessage |-> <<"Tente novamente ou consulte um CEP válido.">>]
      [] handler = "cenario2" ->
            [action |-> ActionsGet("OUT_OF_SCOPE"),
             executedAction |-> <<"Erro na consulta de CEP">>,
             initialMessage |->
                <<"Erro ao consultar o CEP: ">> \o ErrorText(error),
             finalMessage |->
                <<"Verifique se o CEP está correto e tente novamente.">>]
      [] handler = "cenario3" ->
            [action |-> ActionsGet("OUT_OF_SCOPE"),
             executedAction |-> <<"Erro na consulta de clima">>,
             initialMessage |->
                <<"Erro ao consultar previsão do tempo: ">> \o ErrorText(error),
             finalMessage |->
                <<"Tente novamente ou verifique o nome da cidade.">>]
      [] handler = "cenario4" ->
            [action |-> ActionsGet("OUT_OF_SCOPE"),
             executedAction |-> <<"Erro na consulta contextual">>,
             initialMessage |->
                <<"Erro ao processar consulta contextual: ">> \o ErrorText(error),
             finalMessage |-> <<"Tente ser mais específico sobre a cidade.">>]
      [] OTHER ->
            [action |-> ActionsGet("OUT_OF_SCOPE"),
             executedAction |-> <<"Erro interno">>,
             initialMessage |-> <<"Ocorreu um erro interno.">>,
             finalMessage |-> <<"Tente novamente em alguns instantes.">>]

(***************************************************************************)
(* The assignments of the branches of execute that end without an error.   *)
(***************************************************************************)
Said(a, ea, im, fm) ==
    [action |-> a, executedAction |-> ea, initialMessage |-> im,
     finalMessage |-> fm]

\* tools.ts:1350-1354
ZipAndWeatherConsulted ==
    Said(ActionsGet("CONSULT_ZIP_CODE_AND_WEATHER"),
         <<"Consulta de CEP e previsão do tempo">>,
         <<"Consultei tanto o CEP quanto a previsão do tempo!">>,
         <<"Dados obtidos com sucesso da Brasil API.">>)

\* tools.ts:1377-1380
ZipConsulted ==
    Said(ActionsGet("CONSULT_ZIP_CODE"), <<"Consulta de CEP">>,
         <<"Encontrei as informações do CEP!">>,
         <<"Dados obtidos da Brasil API.">>)

\* tools.ts:1429-1433
MultipleCitiesFound(name) ==
    Said(ActionsGet("MULTIPLE_CITIES"), <<"Múltiplas cidades encontradas">>,
         <<"Encontrei várias cidades chamadas ", name, ". Qual você deseja?">>,
         <<"Por favor, seja mais específico ou mencione o estado.">>)

\* tools.ts:1451-1454
WeatherConsulted ==
    Said(ActionsGet("CONSULT_WEATHER_DIRECT"),
         <<"Consulta de previsão do tempo">>,
         <<"Encontrei a previsão do tempo!">>,
         <<"Dados obtidos da API CPTEC/Brasil API.">>)

\* tools.ts:1457-1461 and 1464-1468
CityNotFound(name) ==
    Said(ActionsGet("CITY_NOT_FOUND"), <<"Cidade não encontrada">>,
         <<"Não encontrei a cidade ", name, " na base de dados do CPTEC.">>,
         <<"Tente com: nome completo da cidade, incluir o estado ou verificar a grafia.">>)

\* the clarification as it would be with the tag of the ZIP clarification
ZipCodeRequested ==
    Said(ActionsGet("REQUEST_ZIP_CODE"), <<"Solicitação de localização">>,
         <<"Para consultar a previsão do tempo, preciso saber a cidade.">>,
         <<"Por favor, informe o nome da cidade.">>)

\* tools.ts:1477-1482
LocationRequested ==
    Said(ActionsGet("REQUEST_LOCATION"), <<"Solicitação de localização">>,
         <<"Para consultar a previsão do tempo, preciso saber a cidade.">>,
         <<"Por favor, informe o nome da cidade.">>)

\* tools.ts:1528-1532
ContextWeatherConsulted ==
    Said(ActionsGet("CONSULT_WEATHER_DIRECT"),
         <<"Consulta de previsão com contexto">>,
         <<"Usando o contexto anterior, encontrei a previsão do tempo!">>,
         <<"Dados obtidos da API CPTEC/Brasil API.">>)

\* tools.ts:1543-1548
ContextQueryDetected ==
    Said(ActionsGet("CONTEXT_QUERY"), <<"Consulta contextual detectada">>,
         <<"Detectei que você quer saber sobre previsão do tempo, mas não especificou a cidade.">>,
         <<"Dica: Você pode perguntar 'previsão' após consultar um CEP, ou especificar a cidade diretamente.">>)

\* tools.ts:1553-1558
OutOfScope ==
    Said(ActionsGet("OUT_OF_SCOPE"), <<"Consulta fora do escopo">>,
         <<"Não consegui identificar uma consulta de CEP ou previsão do tempo.">>,
         <<"Tente algo como: 'CEP 01310100', 'Tempo em São Paulo' ou 'Previsão em Tabatinga'.">>)

\* the values of the four variables when no branch assigned them
NothingSaid == Said("", <<>>, <<>>, <<>>)

(***************************************************************************)
(* The state machine.                                                      *)
(***************************************************************************)
(***************************************************************************)
(* makeRequest, brasil-api.ts:66-109, as a process: the timer is armed,    *)
(* fetch is awaited, the timer is cleared when fetch resolves with the     *)
(* response (its status and headers), and the body is then read by         *)
(* response.json().  Time is counted in ticks since the call started.      *)
(***************************************************************************)
\* how many calls of makeRequest run side by side
MaxRequests == 2

\* config.timeout, brasil-api.ts:60, in ticks
RequestTimeout == 2

\* how long a call is followed
MaxElapsed == 4

IdleRequest == [phase |-> "idle", timer |-> "none", elapsed |-> 0, result |-> ""]

InFlight(i) == requests[i].phase \in {"fetching", "reading"}

\* makeRequest is called: brasil-api.ts:71-75
StartRequest(i) ==
    /\ requests[i].phase = "idle"
    /\ requests' = [requests EXCEPT ![i] =
                       [phase |-> "fetching", timer |-> "armed", elapsed |-> 0,
                        result |-> ""]]
    /\ UNCHANGED <<executeVars, messagesTable, sendMessage, messages,
                   submitted>>

\* fetch resolves with the response: the timer is cleared at once,
\* brasil-api.ts:84, and a status that is not 2xx is thrown and caught
ResponseArrives(i, ok) ==
    /\ requests[i].phase = "fetching"
    /\ requests' = [requests EXCEPT ![i] =
                       IF ok
                       THEN [@ EXCEPT !.phase = "reading", !.timer = "cleared"]
                       ELSE [@ EXCEPT !.phase = "failed", !.timer = "cleared",
                                      !.result = "error"]]
    /\ UNCHANGED <<executeVars, messagesTable, sendMessage, messages,
                   submitted>>

\* fetch rejects on a network failure: the catch clears the timer
FetchRejects(i) ==
    /\ requests[i].phase = "fetching"
    /\ requests' = [requests EXCEPT ![i] =
                       [@ EXCEPT !.phase = "failed", !.timer = "cleared",
                                 !.result = "error"]]
    /\ UNCHANGED <<executeVars, messagesTable, sendMessage, messages,
                   submitted>>

\* the timer of call i expires: controller.abort(), brasil-api.ts:72, and the
\* awaited promise of that call rejects with AbortError, brasil-api.ts:97-101
Abort(i) ==
    /\ requests[i].timer = "armed"
    /\ requests[i].elapsed >= RequestTimeout
    /\ requests' = [requests EXCEPT ![i] =
                       IF InFlight(i)
                       THEN [@ EXCEPT !.phase = "failed", !.timer = "fired",
                                      !.result = "timeout"]
                       ELSE [@ EXCEPT !.timer = "fired"]]
    /\ UNCHANGED <<executeVars, messagesTable, sendMessage, messages,
                   submitted>>

\* response.json() resolves: makeRequest returns, brasil-api.ts:93
BodyParsed(i) ==
    /\ requests[i].phase = "reading"
    /\ requests' = [requests EXCEPT ![i] =
                       [@ EXCEPT !.phase = "returned", !.result = "ok"]]
    /\ UNCHANGED <<executeVars, messagesTable, sendMessage, messages,
                   submitted>>

\* response.json() rejects, on a body that is not JSON or a broken connection
BodyRejects(i) ==
    /\ requests[i].phase = "reading"
    /\ requests' = [requests EXCEPT ![i] =
                       [@ EXCEPT !.phase = "failed", !.result = "error"]]
    /\ UNCHANGED <<executeVars, messagesTable, sendMessage, messages,
                   submitted>>

\* one tick passes for every call in flight; an armed timer that has reached
\* its delay fires before more time passes
Tick ==
    /\ \E i \in 1..MaxRequests : InFlight(i)
    /\ \A i \in 1..MaxRequests :
          /\ InFlight(i) => requests[i].elapsed < MaxElapsed
          /\ requests[i].timer = "armed" =>
                requests[i].elapsed < RequestTimeout
    /\ requests' = [i \in 1..MaxRequests |->
                       IF InFlight(i)
                       THEN [requests[i] EXCEPT !.elapsed = @ + 1]
                       ELSE requests[i]]
    /\ UNCHANGED <<executeVars, messagesTable, sendMessage, messages,
                   submitted>>

\* no call of makeRequest has started
NoRequests == requests = [i \in 1..MaxRequests |-> IdleRequest]

(***************************************************************************)
(* SEND_MESSAGE, tools.ts:1669-2048, on one conversation.  The content of  *)
(* a message is kept as what it says: the address and the forecast it      *)
(* reports, which are what the scan for context looks for.  A provider is  *)
(* a function from what it is asked to its answer.                         *)
(***************************************************************************)
\* .limit(10), tools.ts:1722
HistoryLimit == 10

Blank ==
    [kind |-> "", cep |-> None, weather |-> None, context |-> None,
     subject |-> "", cities |-> <<>>, error |-> <<>>]

\* .orderBy(messagesTable.createdAt).limit(10): the rows in ascending order
\* of creation, cut after the tenth
MessageHistory(table) ==
    SubSeq(table, 1, IF Len(table) > HistoryLimit
                     THEN HistoryLimit ELSE Len(table))

\* the loop of tools.ts:1735-1769, from messageHistory[i] downwards
RECURSIVE LastCityContextFrom(_, _)
LastCityContextFrom(messageHistory, i) ==
    IF i = 0 THEN None
    ELSE LET msg == messageHistory[i] IN
         IF msg.role = "assistant" /\ IsSome(msg.content.cep)
         THEN Some([city |-> Get(msg.content.cep).city,
                    state |-> Get(msg.content.cep).state])
         ELSE IF msg.role = "assistant" /\ IsSome(msg.content.weather)
         THEN Some([city |-> Get(msg.content.weather).cidade,
                    state |-> Get(msg.content.weather).estado])
         ELSE LastCityContextFrom(messageHistory, i - 1)

\* searchCityAndForecast(cityName, stateName), brasil-api.ts:228-293
SearchCityAndForecast(name, state, cityProvider, forecastProvider) ==
    LET r == searchCity(cityProvider[name]) IN
    IF ~r.ok THEN Err(r.error)
    ELSE LET cities == Get(r.value)
             early == ResultBeforeForecast(cities, state)
         IN
         IF IsSome(early) THEN Ok(Get(early))
         ELSE LET filtered == FilteredCities(cities, state)
                  f == forecast(forecastProvider[filtered[1].id])
              IN Ok(CityResult(filtered, IF f.ok THEN f.value ELSE None, FALSE))

\* postcodeAndForecast(zipcode), brasil-api.ts:298-333
PostcodeAndForecast(zipcode, addressProvider, cityProvider, forecastProvider) ==
    LET z == postcode(addressProvider[zipcode]) IN
    IF ~z.ok THEN Err(z.error)
    ELSE LET c == SearchCityAndForecast(Get(z.value).city, Get(z.value).state,
                                        cityProvider, forecastProvider)
         IN Ok([zipcode |-> Get(z.value),
                weather |-> IF c.ok THEN Get(c.value).weather ELSE None])

\* what a branch of the chain leaves in the locals
Local(aiContent, toolUsed, name, useContext, result) ==
    [aiContent |-> aiContent, toolUsed |-> toolUsed, cityName |-> name,
     useContext |-> useContext, result |-> result]

\* Scenario 1, tools.ts:1776-1813
ZipAndWeather(zip, addressProvider, cityProvider, forecastProvider) ==
    LET r == PostcodeAndForecast(zip, addressProvider, cityProvider,
                                 forecastProvider)
    IN
    IF ~r.ok
    THEN Local([Blank EXCEPT !.kind = "error",
                  !.error = <<"Erro ao consultar CEP e previsão: ">> \o r.error],
               TRUE, "", FALSE, None)
    ELSE IF IsSome(Get(r.value).weather)
    THEN Local([Blank EXCEPT !.kind = "cep", !.cep = Some(Get(r.value).zipcode),
                             !.weather = Get(r.value).weather],
               TRUE, "", FALSE, r.value)
    ELSE Local(Blank, FALSE, "", FALSE, r.value)

\* Scenario 2, tools.ts:1815-1845
OnlyZip(zip, addressProvider) ==
    IF zip # ""
    THEN LET data == postcode(addressProvider[zip]) IN
         IF data.ok
         THEN Local([Blank EXCEPT !.kind = "cep", !.cep = data.value],
                    TRUE, "", FALSE, None)
         ELSE Local([Blank EXCEPT !.kind = "error",
                       !.error = <<"Erro ao consultar o CEP: ">> \o data.error],
                    TRUE, "", FALSE, None)
    ELSE Local([Blank EXCEPT !.kind = "askZip"], TRUE, "", FALSE, None)

\* Scenario 3, tools.ts:1847-1945
OnlyWeather(message, lastCityContext, cityProvider, forecastProvider) ==
    LET cityAndState == message.extractCityAndState
        found == IF IsSome(cityAndState) THEN Get(cityAndState).city
                 ELSE message.extractBestCityName
        stateUsed == IF IsSome(cityAndState) THEN Get(cityAndState).state
                     ELSE ""
        useContext == /\ found = ""
                      /\ IsSome(lastCityContext)
                      /\ message.isContextualWeatherQuery
        cityUsed == IF useContext THEN Get(lastCityContext).city ELSE found
    IN
    IF cityUsed = ""
    THEN Local([Blank EXCEPT !.kind = "askCity", !.context = lastCityContext],
               TRUE, cityUsed, useContext, None)
    ELSE LET r == SearchCityAndForecast(cityUsed, stateUsed, cityProvider,
                                        forecastProvider)
         IN
         IF ~r.ok
         THEN Local([Blank EXCEPT !.kind = "error",
                       !.error = <<"Erro ao consultar previsão do tempo: ">>
                                     \o r.error],
                    TRUE, cityUsed, useContext, None)
         ELSE IF Len(Get(r.value).cities) > 0 /\ Get(r.value).multipleCities
         THEN Local([Blank EXCEPT !.kind = "multipleCities",
                                  !.subject = cityUsed,
                                  !.cities = Get(r.value).cities],
                    TRUE, cityUsed, useContext, None)
         ELSE IF Len(Get(r.value).cities) > 0 /\ IsSome(Get(r.value).weather)
         THEN Local([Blank EXCEPT !.kind = "weather",
                                  !.weather = Get(r.value).weather,
                                  !.context = IF useContext THEN lastCityContext
                                              ELSE None],
                    TRUE, cityUsed, useContext, None)
         ELSE Local([Blank EXCEPT !.kind = "noForecast", !.subject = cityUsed],
                    TRUE, cityUsed, useContext, None)

\* the city search queries, tools.ts:1947-1981
CitySearch(message, cityProvider) ==
    IF message.cityMatches = "" THEN Local(Blank, FALSE, "", FALSE, None)
    ELSE LET cities == searchCity(cityProvider[message.cityMatches]) IN
         IF ~cities.ok
         THEN Local([Blank EXCEPT !.kind = "error",
                       !.error = <<"Erro ao buscar cidades: ">> \o cities.error],
                    TRUE, "", FALSE, None)
         ELSE IF Len(Get(cities.value)) > 0
         THEN Local([Blank EXCEPT !.kind = "citiesFound",
                                  !.subject = message.cityMatches,
                                  !.cities = Get(cities.value)],
                    TRUE, "", FALSE, None)
         ELSE Local([Blank EXCEPT !.kind = "noCity",
                                  !.subject = message.cityMatches],
                    TRUE, "", FALSE, None)

\* the if / else-if chain of tools.ts:1771-1982
ToolUsed(message, lastCityContext, addressProvider, cityProvider, forecastProvider) ==
    LET extractedZipCode == message.extractZipCode
        hasWeatherRequest == message.hasWeatherKeyword
    IN
    IF extractedZipCode # "" /\ hasWeatherRequest
    THEN ZipAndWeather(extractedZipCode, addressProvider, cityProvider,
                       forecastProvider)
    ELSE IF extractedZipCode # "" \/ message.mentionsZip
    THEN OnlyZip(extractedZipCode, addressProvider)
    ELSE IF hasWeatherRequest
    THEN OnlyWeather(message, lastCityContext, cityProvider, forecastProvider)
    ELSE IF message.mentionsCitySearch
    THEN CitySearch(message, cityProvider)
    ELSE Local(Blank, FALSE, "", FALSE, None)

\* the general reply of tools.ts:1984-2013: the text of AI_GENERATE, or the
\* greeting when it is empty or the call fails
General(aiText) ==
    [Blank EXCEPT !.kind = "general",
                  !.subject = OrElse(aiText, "Olá! Como posso ajudá-lo?")]

NotCalled ==
    [called |-> FALSE, raised |-> FALSE, message |-> <<>>,
     messageHistory |-> <<>>, lastCityContext |-> None, cityName |-> "",
     useContext |-> FALSE, toolUsed |-> FALSE, result |-> None]

\* execute of SEND_MESSAGE, tools.ts:1691-2046
SendMessage(message, conversation, addressProvider, cityProvider, forecastProvider, aiText) ==
    /\ UNCHANGED <<executeVars, requests, messages, submitted>>
    /\ IF conversation = <<>>
       THEN \* throw new Error("Conversation not found")
            /\ sendMessage' = [NotCalled EXCEPT !.called = TRUE, !.raised = TRUE,
                                                !.message = message]
            /\ UNCHANGED messagesTable
       ELSE LET saved == Append(messagesTable,
                                [role |-> "user", content |-> message])
                messageHistory == MessageHistory(saved)
                lastCityContext ==
                    LastCityContextFrom(messageHistory, Len(messageHistory))
                tool == ToolUsed(message, lastCityContext, addressProvider,
                                 cityProvider, forecastProvider)
                aiContent == IF tool.toolUsed THEN tool.aiContent
                             ELSE General(aiText)
            IN
            /\ messagesTable' =
                   Append(saved, [role |-> "assistant", content |-> aiContent])
            /\ sendMessage' =
                   [called |-> TRUE, raised |-> FALSE, message |-> message,
                    messageHistory |-> messageHistory,
                    lastCityContext |-> lastCityContext,
                    cityName |-> tool.cityName, useContext |-> tool.useContext,
                    toolUsed |-> tool.toolUsed, result |-> tool.result]

(***************************************************************************)
(* The chat view, part_005: the list of messages, handleSubmit and         *)
(* processAIResponse.  A message is kept as its role and the data attached *)
(* to it, which is what extractContext reads.                              *)
(***************************************************************************)
\* i < messages.length - 10, part_005:123
ContextWindow == 10

ViewMessage(role, data) == [role |-> role, data |-> data]

\* the two greetings of useState, part_005:26-41
InitialMessages ==
    <<ViewMessage("assistant", None), ViewMessage("assistant", None)>>

\* the loop of extractContext, part_005:101-126, from messages[i] downwards
\* (i counts from 1, the code's index from 0)
RECURSIVE ExtractContextFrom(_, _, _, _)
ExtractContextFrom(list, i, lastCepData, lastCityName) ==
    IF i = 0 THEN [lastCepData |-> lastCepData, lastCityName |-> lastCityName]
    ELSE LET message == list[i]
             cep == IF /\ IsSome(message.data)
                       /\ Get(message.data).type = "zipCode"
                       /\ ~IsSome(lastCepData)
                    THEN Some([city |-> Get(message.data).data.city,
                               state |-> Get(message.data).data.state,
                               zipcode |-> Get(message.data).data.zipcode])
                    ELSE lastCepData
             city == IF /\ IsSome(message.data)
                        /\ Get(message.data).type = "weather"
                        /\ ~IsSome(lastCityName)
                     THEN Some([city |-> Get(message.data).data.city,
                                state |-> Get(message.data).data.state])
                     ELSE lastCityName
         IN
         IF (IsSome(cep) \/ IsSome(city)) /\ i - 1 < Len(list) - ContextWindow
         THEN [lastCepData |-> cep, lastCityName |-> city]
         ELSE ExtractContextFrom(list, i - 1, cep, city)

\* the place the input is enriched with, part_005:237-262
EnrichedWith(input, context) ==
    IF (input.isWeatherQuery /\ ~input.hasSpecificCity)
         \/ input.isContextualRequest
    THEN IF IsSome(context.lastCepData)
         THEN Some([city |-> Get(context.lastCepData).city,
                    state |-> Get(context.lastCepData).state])
         ELSE context.lastCityName
    ELSE None

NotSubmitted ==
    [pending |-> FALSE, input |-> <<>>,
     context |-> [lastCepData |-> None, lastCityName |-> None],
     enrichedWith |-> None]

\* handleSubmit up to its await, part_005:206-265: extractContext reads the
\* messages of the render, which the user's message is not yet among
HandleSubmit(input) ==
    /\ ~submitted.pending
    /\ UNCHANGED <<executeVars, requests, messagesTable, sendMessage>>
    /\ LET context == ExtractContextFrom(messages, Len(messages), None, None)
           enrichedWith == EnrichedWith(input, context)
       IN
       /\ submitted' = [pending |-> TRUE, input |-> input, context |-> context,
                        enrichedWith |-> enrichedWith]
       /\ messages' = messages \o <<ViewMessage("user", None)>> \o
                         (IF IsSome(enrichedWith)
                          THEN <<ViewMessage("assistant", None)>> ELSE <<>>)

\* the messages processAIResponse adds, part_005:132-201
ProcessAIResponse(response) ==
    IF response.action = Actions.MULTIPLE_CITIES /\ IsSome(response.citiesFound)
    THEN <<ViewMessage("assistant", None), ViewMessage("assistant", None)>>
    ELSE IF response.action = ActionsGet("CONTEXT_QUERY")
    THEN <<ViewMessage("assistant", None), ViewMessage("assistant", None)>>
    ELSE <<ViewMessage("assistant", None)>> \o
         (IF IsSome(response.zipCodeData)
          THEN <<ViewMessage("assistant",
                             Some([type |-> "zipCode",
                                   data |-> Get(response.zipCodeData)]))>>
          ELSE <<>>) \o
         (IF /\ IsSome(response.weatherData)
             /\ Len(Get(response.weatherData).weather) > 0
          THEN <<ViewMessage("assistant",
                             Some([type |-> "weather",
                                   data |-> Get(response.weatherData)]))>>
          ELSE <<>>) \o
         (IF response.finalMessage # response.initialMessage
          THEN <<ViewMessage("assistant", None)>> ELSE <<>>)

\* the mutation resolves and handleSubmit goes on, part_005:266-276; None
\* stands for its rejection, part_005:277-287
MutationSettles(response) ==
    /\ submitted.pending
    /\ UNCHANGED <<executeVars, requests, messagesTable, sendMessage>>
    /\ submitted' = [submitted EXCEPT !.pending = FALSE]
    /\ messages' = messages \o (IF IsSome(response)
                                THEN ProcessAIResponse(Get(response))
                                ELSE <<ViewMessage("assistant", None)>>)

NoInput ==
    [extractZipCode |-> "", hasWeatherKeyword |-> FALSE,
     isContextualWeatherQuery |-> FALSE, extractCityAndState |-> None,
     extractBestCityName |-> ""]

\* a promise is pending, fulfilled with a value or rejected with a reason;
\* NoPromise stands for a promise that was not created
NoPromise == [state |-> "none", value |-> None, reason |-> <<>>]
Pending == [state |-> "pending", value |-> None, reason |-> <<>>]
Fulfilled(v) == [state |-> "fulfilled", value |-> Some(v), reason |-> <<>>]
Rejected(e) == [state |-> "rejected", value |-> None, reason |-> e]

\* a race that would take the settlement of each of its promises in turn
SettleRaceAnew(race, settled) == settled

\* the promise of Promise.race when one of its promises settles: it takes
\* the first settlement and ignores every later one
SettleRace(race, settled) ==
    IF race.state = "pending" THEN settled ELSE race

\* the locals of execute as it declares them, tools.ts:1181-1192: nothing is
\* carried over from one call to the next
FreshCall ==
    /\ pc = "idle"
    /\ scenario = 0
    /\ userInput = NoInput
    /\ aiInterpretation = None
    /\ interpretation = TraditionalAnalysis(NoInput)
    /\ cityName = ""
    /\ stateName = ""
    /\ zipcodeData = None
    /\ filteredCities = <<>>
    /\ action = ""
    /\ executedAction = <<>>
    /\ initialMessage = <<>>
    /\ finalMessage = <<>>
    /\ zipCodeData = None
    /\ weatherData = None
    /\ citiesFound = None
    /\ calls = <<>>
    /\ replies = <<>>
    /\ raised = FALSE
    /\ aiPromise = NoPromise
    /\ timeoutPromise = NoPromise
    /\ racePromise = NoPromise

\* the programs modelled apart from execute have not started
AtRest ==
    /\ NoRequests
    /\ messagesTable = <<>>
    /\ sendMessage = NotCalled
    /\ messages = InitialMessages
    /\ submitted = NotSubmitted

Init ==
    /\ aiAvailable \in BOOLEAN
    /\ FreshCall
    /\ AtRest
    /\ earlier = None
    /\ text = <<>>
    /\ extracted = None

ProviderCall(fn, zipcode, name, cityCode) ==
    [fn |-> fn, zipcode |-> zipcode, cityName |-> name, cityCode |-> cityCode]

\* execute suspends at the await of a provider request
Call(site, request) ==
    /\ pc' = site
    /\ calls' = Append(calls, request)
    /\ UNCHANGED <<action, executedAction, initialMessage, finalMessage,
                   zipCodeData, weatherData, citiesFound, raised>>

\* the return statement of execute, tools.ts:1567
Return(said, zd, wd, cf) ==
    /\ pc' = "done"
    /\ action' = said.action
    /\ executedAction' = said.executedAction
    /\ initialMessage' = said.initialMessage
    /\ finalMessage' = said.finalMessage
    /\ zipCodeData' = zd
    /\ weatherData' = wd
    /\ citiesFound' = cf
    /\ UNCHANGED <<calls, raised>>

\* an error no catch block handles rejects the promise of execute
Escape ==
    /\ pc' = "done"
    /\ raised' = TRUE
    /\ UNCHANGED <<action, executedAction, initialMessage, finalMessage,
                   zipCodeData, weatherData, citiesFound, calls>>

\* what the variables hold if no later statement assigns them
SaidSoFar == Said(action, executedAction, initialMessage, finalMessage)

\* tools.ts:1326-1356, once postcodeAndForecast has resolved
AfterPostcodeAndForecast(weather) ==
    IF IsSome(weather)
    THEN Return(ZipAndWeatherConsulted, Some(ToZipCodeData(Get(zipcodeData))),
                Some(ToWeatherData(Get(weather))), citiesFound)
    ELSE Return(SaidSoFar, Some(ToZipCodeData(Get(zipcodeData))), weatherData,
                citiesFound)

\* the code that runs once searchCityAndForecast has resolved to `result`:
\* brasil-api.ts:323-326 then tools.ts:1326 (1), tools.ts:1420-1469 (3),
\* tools.ts:1513-1533 (4)
AfterCityResult(sc, result) ==
    CASE sc = 1 -> AfterPostcodeAndForecast(result.weather)
      [] sc = 3 ->
            IF Len(result.cities) > 0
            THEN IF result.multipleCities
                 THEN Return(MultipleCitiesFound(cityName), zipCodeData,
                             weatherData, Some(ToCitiesFound(result.cities)))
                 ELSE IF IsSome(result.weather)
                 THEN Return(WeatherConsulted, zipCodeData,
                             Some(ToWeatherData(Get(result.weather))),
                             citiesFound)
                 ELSE Return(CityNotFound(cityName), zipCodeData, weatherData,
                             citiesFound)
            ELSE Return(CityNotFound(cityName), zipCodeData, weatherData,
                        citiesFound)
      [] OTHER ->
            IF Len(result.cities) > 0 /\ IsSome(result.weather)
            THEN Return(ContextWeatherConsulted, zipCodeData,
                        Some(ToWeatherData(Get(result.weather))), citiesFound)
            ELSE Return(SaidSoFar, zipCodeData, weatherData, citiesFound)

\* `error` is thrown at the await `site` of scenario `sc`
Throw(sc, site, error) ==
    LET handlers == Enclosing(sc, site) IN
    IF handlers = <<>> THEN Escape
    ELSE IF Head(handlers) = "searchCityAndForecast"
         THEN AfterCityResult(sc, CityResult(filteredCities, None, FALSE))
    ELSE IF Head(handlers) = "postcodeAndForecast"
         THEN AfterPostcodeAndForecast(None)
    ELSE Return(Catch(Head(handlers), error), zipCodeData, weatherData,
                citiesFound)

\* what the city extractors find when scenario 3 or 4 calls them:
\* extractBestCityName is called only if extractCityAndState found nothing
Extractions ==
    { [cs |-> cs, bc |-> bc] :
        cs \in CityAndStateResults, bc \in BestCityNameResults }

\* The extractors are functions of the text: in a second call on the same
\* text they find what they found in the first, if the first called them.
SameExtractions(e) ==
    (IsSome(earlier) /\ Get(earlier).drawn) =>
        /\ e.cs = Get(earlier).userInput.extractCityAndState
        /\ e.bc = Get(earlier).userInput.extractBestCityName

\* a second call is made on the text of the first
SameText(input) ==
    IsSome(earlier) =>
        /\ input.extractZipCode = Get(earlier).userInput.extractZipCode
        /\ input.hasWeatherKeyword = Get(earlier).userInput.hasWeatherKeyword
        /\ input.isContextualWeatherQuery =
              Get(earlier).userInput.isContextualWeatherQuery

\* during a second call the providers answer a request of the first call
\* as they answered it then
SameAnswer(r) ==
    IsSome(earlier) =>
        \A k \in 1..Len(Get(earlier).replies) :
            Get(earlier).calls[k] = calls[Len(calls)] =>
                Get(earlier).replies[k] = r

\* tools.ts:1286-1559 up to the first await: the interpretation, the choice
\* of the scenario and its first statements
Analyse(input, ai) ==
    LET interp == Interpretation(ai, input)
        sc == Scenario(interp, input)
    IN
    /\ interpretation' = interp
    /\ scenario' = sc
    /\ CASE sc \in {1, 2} ->
            /\ userInput' = input
            /\ UNCHANGED <<cityName, stateName>>
            /\ Call("postcode",
                    ProviderCall("postcode", CepToUse(interp, input), "", 0))
         [] sc = 3 /\ interp.cidade # "" ->
            /\ userInput' = input
            /\ cityName' = interp.cidade
            /\ stateName' = interp.estado
            /\ Call("searchCity",
                    ProviderCall("searchCity", "", interp.cidade, 0))
         [] sc = 3 /\ interp.cidade = "" ->
            \E e \in Extractions :
                /\ IsSome(e.cs) => e.bc = ""
                /\ SameExtractions(e)
                /\ userInput' = [input EXCEPT !.extractCityAndState = e.cs,
                                              !.extractBestCityName = e.bc]
                /\ cityName' = IF IsSome(e.cs) THEN Get(e.cs).city ELSE e.bc
                /\ stateName' = IF IsSome(e.cs) THEN Get(e.cs).state
                                ELSE interp.estado
                /\ IF cityName' # ""
                   THEN Call("searchCity",
                             ProviderCall("searchCity", "", cityName', 0))
                   ELSE Return(LocationRequested, zipCodeData, weatherData,
                               citiesFound)
         [] sc = 4 ->
            \E e \in Extractions :
                /\ IsSome(e.cs) => e.bc = ""
                /\ SameExtractions(e)
                /\ userInput' = [input EXCEPT !.extractCityAndState = e.cs,
                                              !.extractBestCityName = e.bc]
                /\ cityName' = IF IsSome(e.cs) THEN Get(e.cs).city ELSE e.bc
                /\ stateName' = ""
                /\ IF cityName' # ""
                   THEN Call("searchCity",
                             ProviderCall("searchCity", "", cityName', 0))
                   ELSE Return(ContextQueryDetected, zipCodeData, weatherData,
                               citiesFound)
         [] OTHER ->
            /\ userInput' = input
            /\ UNCHANGED <<cityName, stateName>>
            /\ Return(OutOfScope, zipCodeData, weatherData, citiesFound)

\* execute is called with a user input, tools.ts:1174-1269
Execute(input) ==
    /\ pc = "idle"
    /\ UNCHANGED restVars
    /\ SameText(input)
    /\ UNCHANGED <<aiAvailable, zipcodeData, filteredCities, replies, earlier,
                   text, extracted>>
    /\ IF aiAvailable
       THEN /\ pc' = "ai"
            /\ userInput' = input
            /\ aiPromise' = Pending
            /\ timeoutPromise' = Pending
            /\ racePromise' = Pending
            /\ UNCHANGED <<scenario, aiInterpretation, interpretation, cityName,
                           stateName, action, executedAction, initialMessage,
                           finalMessage, zipCodeData, weatherData, citiesFound,
                           calls, raised>>
       ELSE /\ UNCHANGED <<aiInterpretation, aiPromise, timeoutPromise,
                           racePromise>>
            /\ Analyse(input, aiInterpretation)

\* the AI promise wins the race of tools.ts:1260, with or without an object
AiResolves(object) ==
    /\ pc = "ai"
    /\ UNCHANGED restVars
    /\ aiPromise' = Fulfilled([object |-> object])
    /\ racePromise' = SettleRace(racePromise, aiPromise')
    /\ aiInterpretation' = racePromise'.value
    /\ UNCHANGED <<aiAvailable, zipcodeData, filteredCities, replies, earlier,
                   text, extracted, timeoutPromise>>
    /\ Analyse(userInput, aiInterpretation')

\* the race rejects: the catch block that encloses the await takes the error
AiFails(error) ==
    /\ pc = "ai"
    /\ UNCHANGED restVars
    /\ UNCHANGED <<aiAvailable, aiInterpretation, zipcodeData, filteredCities,
                   replies, earlier, text, extracted>>
    /\ LET handlers == Enclosing(scenario, "ai") IN
       IF handlers = <<>>
       THEN /\ Escape
            /\ UNCHANGED <<scenario, userInput, interpretation, cityName,
                           stateName>>
       ELSE IF Head(handlers) = "ai"
       THEN \* tools.ts:1270-1284: the error is logged, execute goes on
            Analyse(userInput, aiInterpretation)
       ELSE /\ Return(Catch(Head(handlers), error), zipCodeData, weatherData,
                      citiesFound)
            /\ UNCHANGED <<scenario, userInput, interpretation, cityName,
                           stateName>>

\* the AI promise rejects before the timer fires
AiRejects ==
    /\ pc = "ai"
    /\ aiPromise' = Rejected(<<"AI error">>)
    /\ racePromise' = SettleRace(racePromise, aiPromise')
    /\ UNCHANGED timeoutPromise
    /\ AiFails(racePromise'.reason)

\* the 15 s timer fires before the AI promise settles, tools.ts:1255-1257
AiTimeout ==
    /\ pc = "ai"
    /\ timeoutPromise' = Rejected(<<"AI timeout">>)
    /\ racePromise' = SettleRace(racePromise, timeoutPromise')
    /\ UNCHANGED aiPromise
    /\ AiFails(racePromise'.reason)

\* the AI promise settles after the timer has won the race: the race is
\* settled already and execute, past its await, reads neither promise again
LateAiSettles(settled) ==
    /\ pc \notin {"idle", "ai"}
    /\ UNCHANGED restVars
    /\ aiPromise.state = "pending"
    /\ aiPromise' = settled
    /\ racePromise' = SettleRace(racePromise, aiPromise')
    /\ UNCHANGED <<aiAvailable, pc, scenario, userInput, aiInterpretation,
                   interpretation, cityName, stateName, zipcodeData,
                   filteredCities, action, executedAction, initialMessage,
                   finalMessage, zipCodeData, weatherData, citiesFound, calls,
                   replies, raised, earlier, text, extracted, timeoutPromise>>

\* the timer, which is never cleared, fires after the AI promise has won
LateTimeout ==
    /\ pc \notin {"idle", "ai"}
    /\ UNCHANGED restVars
    /\ timeoutPromise.state = "pending"
    /\ timeoutPromise' = Rejected(<<"AI timeout">>)
    /\ racePromise' = SettleRace(racePromise, timeoutPromise')
    /\ UNCHANGED <<aiAvailable, pc, scenario, userInput, aiInterpretation,
                   interpretation, cityName, stateName, zipcodeData,
                   filteredCities, action, executedAction, initialMessage,
                   finalMessage, zipCodeData, weatherData, citiesFound, calls,
                   replies, raised, earlier, text, extracted, aiPromise>>

\* the address provider answers the request of postcode
ReplyPostcode(resp) ==
    /\ pc = "postcode"
    /\ UNCHANGED restVars
    /\ LET r == postcode(resp) IN
       /\ SameAnswer(r)
       /\ replies' = Append(replies, r)
       /\ UNCHANGED <<aiAvailable, scenario, userInput, aiInterpretation,
                      interpretation, filteredCities, earlier, text,
                      extracted, aiPromise, timeoutPromise, racePromise>>
       /\ IF ~r.ok
          THEN /\ UNCHANGED <<zipcodeData, cityName, stateName>>
               /\ Throw(scenario, "postcode", r.error)
          ELSE IF scenario = 1
          THEN \* brasil-api.ts:312-321 and 244
               /\ zipcodeData' = r.value
               /\ cityName' = Get(r.value).city
               /\ stateName' = Get(r.value).state
               /\ Call("searchCity",
                       ProviderCall("searchCity", "", Get(r.value).city, 0))
          ELSE \* tools.ts:1368-1380
               /\ UNCHANGED <<zipcodeData, cityName, stateName>>
               /\ Return(ZipConsulted, Some(ToZipCodeData(Get(r.value))),
                         weatherData, citiesFound)

\* the city-search provider answers the request of searchCity
ReplySearchCity(resp) ==
    /\ pc = "searchCity"
    /\ UNCHANGED restVars
    /\ LET r == searchCity(resp) IN
       /\ SameAnswer(r)
       /\ replies' = Append(replies, r)
       /\ UNCHANGED <<aiAvailable, scenario, userInput, aiInterpretation,
                      interpretation, zipcodeData, cityName, stateName,
                      earlier, text, extracted, aiPromise, timeoutPromise,
                      racePromise>>
       /\ IF ~r.ok
          THEN /\ UNCHANGED filteredCities
               /\ Throw(scenario, "searchCity", r.error)
          ELSE LET cities == Get(r.value)
                   early == ResultBeforeForecast(cities, stateName)
               IN
               /\ filteredCities' = FilteredCities(cities, stateName)
               /\ IF IsSome(early)
                  THEN AfterCityResult(scenario, Get(early))
                  ELSE Call("forecast",
                            ProviderCall("forecast", "", "",
                                         FilteredCities(cities, stateName)[1].id))

\* the weather provider answers the request of forecast
ReplyForecast(resp) ==
    /\ pc = "forecast"
    /\ UNCHANGED restVars
    /\ LET r == forecast(resp) IN
       /\ SameAnswer(r)
       /\ replies' = Append(replies, r)
       /\ UNCHANGED <<aiAvailable, scenario, userInput, aiInterpretation,
                      interpretation, zipcodeData, cityName, stateName,
                      filteredCities, earlier, text, extracted, aiPromise,
                      timeoutPromise, racePromise>>
       /\ IF ~r.ok
          THEN Throw(scenario, "forecast", r.error)
          ELSE AfterCityResult(scenario,
                               CityResult(filteredCities, r.value, FALSE))

Next ==
    \/ \E input \in UserInputs : Execute(input)
    \/ \E o \in {None} \cup { Some(x) : x \in AiObjects } : AiResolves(o)
    \/ AiRejects
    \/ AiTimeout
    \/ \E resp \in AddressReplies : ReplyPostcode(resp)
    \/ \E resp \in CityReplies : ReplySearchCity(resp)
    \/ \E resp \in ForecastReplies : ReplyForecast(resp)

Spec == Init /\ [][Next]_vars

(***************************************************************************)
(* Two calls of execute on the same text.  execute keeps nothing between   *)
(* calls: the second starts from fresh locals, the AI capability may have  *)
(* come or gone, and the AI race resolves on its own.                      *)
(***************************************************************************)
\* the cities the city-search provider knows of in the two-call runs
MaxCitiesAgain == 3

\* what the first call did and returned
CallRecord ==
    [aiAvailable |-> aiAvailable, userInput |-> userInput,
     drawn |-> (scenario = 4 \/ (scenario = 3 /\ interpretation.cidade = "")),
     aiInterpretation |-> aiInterpretation, interpretation |-> interpretation,
     scenario |-> scenario, cityName |-> cityName, stateName |-> stateName,
     calls |-> calls, replies |-> replies, action |-> action,
     executedAction |-> executedAction, initialMessage |-> initialMessage,
     finalMessage |-> finalMessage, zipCodeData |-> zipCodeData,
     weatherData |-> weatherData, citiesFound |-> citiesFound,
     raised |-> raised]

\* execute has returned and is called again on the same text
Again ==
    /\ pc = "done"
    /\ UNCHANGED restVars
    /\ earlier = None
    /\ earlier' = Some(CallRecord)
    /\ aiAvailable' \in BOOLEAN
    /\ pc' = "idle"
    /\ scenario' = 0
    /\ userInput' = NoInput
    /\ aiInterpretation' = None
    /\ interpretation' = TraditionalAnalysis(NoInput)
    /\ cityName' = ""
    /\ stateName' = ""
    /\ zipcodeData' = None
    /\ filteredCities' = <<>>
    /\ action' = ""
    /\ executedAction' = <<>>
    /\ initialMessage' = <<>>
    /\ finalMessage' = <<>>
    /\ zipCodeData' = None
    /\ weatherData' = None
    /\ citiesFound' = None
    /\ calls' = <<>>
    /\ replies' = <<>>
    /\ raised' = FALSE
    /\ aiPromise' = NoPromise
    /\ timeoutPromise' = NoPromise
    /\ racePromise' = NoPromise
    /\ UNCHANGED <<text, extracted>>

AgainAiObjects ==
    [tipo : AiTipos, cep : {""}, cidade : {"", "Ibitinga"},
     estado : {"", "SP"}, contextual : BOOLEAN]

AgainAddressReplies ==
    { HttpOk(ZipCodeResult("01310100", "SP", "Ibitinga", "Centro", "Rua A")),
      HttpStatus("500") }

AgainCityReplies ==
    { HttpOk(SubList(S, 1)) : S \in SUBSET (1..MaxCitiesAgain) }
        \cup { HttpAbort }

AgainForecastReplies ==
    { HttpOk(WeatherForecastResult("Ibitinga", "SP", "2025-08-01",
                                   Some(<<DayA, DayB>>))),
      HttpBadJson }

NextTwice ==
    \/ \E input \in UserInputs : Execute(input)
    \/ \E o \in {None} \cup { Some(x) : x \in AgainAiObjects } : AiResolves(o)
    \/ AiRejects
    \/ AiTimeout
    \/ \E resp \in AgainAddressReplies : ReplyPostcode(resp)
    \/ \E resp \in AgainCityReplies : ReplySearchCity(resp)
    \/ \E resp \in AgainForecastReplies : ReplyForecast(resp)
    \/ Again

SpecTwice == Init /\ [][NextTwice]_vars

(***************************************************************************)
(* One call of execute in which the loser of the race of tools.ts:1260     *)
(* settles too, at any moment after the race is decided: the AI promise    *)
(* after the timer has won, the timer after the AI promise has.            *)
(***************************************************************************)
\* what the AI promise can settle with once the timer has won
LateAiSettlements ==
    { Fulfilled([object |-> Some(x)]) :
        x \in [tipo : {"CLIMA", "CEP"}, cep : {""}, cidade : {"Ibitinga"},
               estado : {"SP"}, contextual : BOOLEAN] }
        \cup { Fulfilled([object |-> None]), Rejected(<<"AI error">>) }

NextRace ==
    \/ \E input \in UserInputs : Execute(input)
    \/ \E o \in {None} \cup { Some(x) : x \in AgainAiObjects } : AiResolves(o)
    \/ AiRejects
    \/ AiTimeout
    \/ \E settled \in LateAiSettlements : LateAiSettles(settled)
    \/ LateTimeout
    \/ \E resp \in AgainAddressReplies : ReplyPostcode(resp)
    \/ \E resp \in AgainCityReplies : ReplySearchCity(resp)
    \/ \E resp \in AgainForecastReplies : ReplyForecast(resp)

SpecRace == Init /\ [][NextRace]_vars

(***************************************************************************)
(* src/common/utils/zipcode.ts.  A text is the sequence of its characters. *)
(***************************************************************************)
DigitChars == <<"0", "1", "2", "3", "4", "5", "6", "7", "8", "9">>

\* the characters \d matches
Digits == { DigitChars[i] : i \in 1..Len(DigitChars) }

\* the characters \s matches, of those the texts hold
Whitespace == {" "}

\* numbers.length === 8, cleanZipCode.length === 8
ZipLength == 8

\* the digits as they would be if they were read as a number and printed
\* back, which drops the leading zeros
RECURSIVE extractNumbersAsNumber(_)
extractNumbersAsNumber(input) ==
    LET numbers == SelectSeq(input, LAMBDA c : c \in Digits) IN
    IF numbers # <<>> /\ Head(numbers) = "0"
    THEN extractNumbersAsNumber(Tail(numbers))
    ELSE numbers

\* input.replace(/\D/g, "")
extractNumbers(input) == SelectSeq(input, LAMBDA c : c \in Digits)

\* a regular expression is the sequence of its atoms: \d, \s+ or a literal
Repeat(atom, n) == [i \in 1..n |-> atom]

\* how many characters of Whitespace stand at input[i], input[i+1], ...
RECURSIVE WhitespaceRun(_, _)
WhitespaceRun(input, i) ==
    IF i <= Len(input) /\ input[i] \in Whitespace
    THEN 1 + WhitespaceRun(input, i + 1)
    ELSE 0

\* the position after the match of `pattern` that starts at input[i], or 0
\* when there is none (\s+ is greedy and no atom after it matches a space)
RECURSIVE MatchFrom(_, _, _)
MatchFrom(input, i, pattern) ==
    IF pattern = <<>> THEN i
    ELSE LET atom == Head(pattern) IN
         IF atom = "\\s+"
         THEN LET n == WhitespaceRun(input, i) IN
              IF n = 0 THEN 0 ELSE MatchFrom(input, i + n, Tail(pattern))
         ELSE IF i > Len(input) THEN 0
         ELSE IF \/ atom = "\\d" /\ input[i] \in Digits
                 \/ atom # "\\d" /\ input[i] = atom
              THEN MatchFrom(input, i + 1, Tail(pattern))
              ELSE 0

\* input.match(pattern): match[0] of the leftmost match, or None for null
Match(input, pattern) ==
    LET starts == { i \in 1..Len(input) : MatchFrom(input, i, pattern) # 0 } IN
    IF starts = {} THEN None
    ELSE LET i == CHOOSE j \in starts : \A k \in starts : j <= k IN
         Some(SubSeq(input, i, MatchFrom(input, i, pattern) - 1))

\* zipcode.ts:69-73
zipCodePatterns ==
    << Repeat("\\d", 5) \o <<"-">> \o Repeat("\\d", 3),
       Repeat("\\d", 8),
       Repeat("\\d", 5) \o <<"\\s+">> \o Repeat("\\d", 3) >>

\* the for loop of zipcode.ts:75-84, from the k-th pattern on
RECURSIVE FromPattern(_, _)
FromPattern(input, k) ==
    IF k > Len(zipCodePatterns) THEN None
    ELSE LET match == Match(input, zipCodePatterns[k]) IN
         IF IsSome(match)
            /\ Len(SelectSeq(Get(match), LAMBDA c : c \in Digits)) = ZipLength
         THEN Some(SelectSeq(Get(match), LAMBDA c : c \in Digits))
         ELSE FromPattern(input, k + 1)

\* extractZipCode(input): Some(the ZIP code), or None for null
extractZipCode(input) ==
    LET numbers == extractNumbers(input) IN
    IF Len(numbers) = ZipLength THEN Some(numbers)
    ELSE IF Len(numbers) > ZipLength THEN FromPattern(input, 1)
    ELSE None

\* the digits the texts under test are written with are 0..MaxDigit
MaxDigit == 1

ZipDigits == { DigitChars[d + 1] : d \in 0..MaxDigit }

\* DDDDD-DDD, DDDDD DDD, and the former inside a longer text with other digits
Hyphenated(D) == SubSeq(D, 1, 5) \o <<"-">> \o SubSeq(D, 6, 8)
Spaced(D) == SubSeq(D, 1, 5) \o <<" ">> \o SubSeq(D, 6, 8)
Embedded(D) == <<"n", " ", "1", "2", " ">> \o Hyphenated(D) \o <<" ", "x">>

\* a run of 9 and of 10 digits with nothing else, as a phone number is written
NineDigits(D) == D \o <<"1">>
TenDigits(D) == D \o <<"1", "0">>

ZipTexts ==
    UNION { {D, Hyphenated(D), Spaced(D), Embedded(D), NineDigits(D),
             TenDigits(D)} :
            D \in [1..ZipLength -> ZipDigits] }

InitZip ==
    /\ aiAvailable = FALSE
    /\ FreshCall
    /\ AtRest
    /\ earlier = None
    /\ text \in ZipTexts
    /\ extracted = None

\* extractZipCode is applied to the text
ExtractZipCode ==
    /\ pc = "idle"
    /\ UNCHANGED restVars
    /\ pc' = "done"
    /\ extracted' = extractZipCode(text)
    /\ UNCHANGED <<aiAvailable, scenario, userInput, aiInterpretation,
                   interpretation, cityName, stateName, zipcodeData,
                   filteredCities, action, executedAction, initialMessage,
                   finalMessage, zipCodeData, weatherData, citiesFound, calls,
                   replies, raised, earlier, text, aiPromise, timeoutPromise,
                   racePromise>>

NextZip == ExtractZipCode

SpecZip == InitZip /\ [][NextZip]_vars

(***************************************************************************)
(* Calls of makeRequest, side by side.                                     *)
(***************************************************************************)
\* nothing has been called yet
InitAtRest ==
    /\ aiAvailable = FALSE
    /\ FreshCall
    /\ earlier = None
    /\ text = <<>>
    /\ extracted = None
    /\ AtRest

NextRequest ==
    \/ \E i \in 1..MaxRequests : StartRequest(i)
    \/ \E i \in 1..MaxRequests, ok \in BOOLEAN : ResponseArrives(i, ok)
    \/ \E i \in 1..MaxRequests : FetchRejects(i)
    \/ \E i \in 1..MaxRequests : Abort(i)
    \/ \E i \in 1..MaxRequests : BodyParsed(i)
    \/ \E i \in 1..MaxRequests : BodyRejects(i)
    \/ Tick

SpecRequest == InitAtRest /\ [][NextRequest]_vars

(***************************************************************************)
(* SEND_MESSAGE.  What a text is to the handler is what its tests find in  *)
(* it: extractZipCode, hasWeatherKeyword, the words of tools.ts:1817-1819, *)
(* the two city extractors, isContextualWeatherQuery, the words of         *)
(* tools.ts:1952-1955 and the match of tools.ts:1957.                      *)
(***************************************************************************)
Message(zip, keyword, mentionsZip, cityAndState, best, contextual, search, match) ==
    [extractZipCode |-> zip, hasWeatherKeyword |-> keyword,
     mentionsZip |-> mentionsZip, extractCityAndState |-> cityAndState,
     extractBestCityName |-> best, isContextualWeatherQuery |-> contextual,
     mentionsCitySearch |-> search, cityMatches |-> match]

\* the row of conversationsTable the select of tools.ts:1695 finds
Conversation == <<[id |-> 1]>>

\* the two places the conversations are about
Places ==
    [Ibitinga |-> [zipcode |-> "14940000", id |-> 2295, nome |-> "Ibitinga",
                   estado |-> "SP"],
     SaoPaulo |-> [zipcode |-> "01310100", id |-> 244, nome |-> "São Paulo",
                   estado |-> "SP"]]

\* the place whose zipcode, id or nome is `value`
PlaceWith(field, value) ==
    CHOOSE p \in {Places.Ibitinga, Places.SaoPaulo} : p[field] = value

AddressOf(place) ==
    ZipCodeResult(place.zipcode, place.estado, place.nome, "Centro", "Rua A")

CityOf(place) == [id |-> place.id, nome |-> place.nome, estado |-> place.estado]

ForecastOf(place) ==
    WeatherForecastResult(place.nome, place.estado, "2025-08-01", Some(<<DayA>>))

(***************************************************************************)
(* One SEND_MESSAGE, on a new conversation or after a turn that reported   *)
(* an address, with every text and every answer of the providers.          *)
(***************************************************************************)
SendMessages ==
    { m \in { Message(zip, keyword, mentionsZip, cityAndState, best,
                      contextual, search, match) :
                zip \in {"", Places.Ibitinga.zipcode}, keyword \in BOOLEAN,
                mentionsZip \in BOOLEAN,
                cityAndState \in
                    {None, Some([city |-> "Ibitinga", state |-> "SP"])},
                best \in {"", "Ibitinga"}, contextual \in BOOLEAN,
                search \in BOOLEAN, match \in {"", "Ibitinga"} } :
        m.cityMatches # "" => m.mentionsCitySearch }

SendAddressProviders ==
    [{Places.Ibitinga.zipcode} ->
        { HttpOk(AddressOf(Places.Ibitinga)),
          HttpOk(ZipCodeResult("14940000", "SP", "Ibitinga", "", "")),
          HttpOk(ZipCodeResult("14940000", "SP", "", "Centro", "Rua A")),
          HttpStatus("404") }]

SendCityProviders ==
    [{"Ibitinga"} ->
        { HttpOk(<<CityOf(Places.Ibitinga)>>),
          HttpOk(<<CityOf(Places.Ibitinga),
                   [id |-> 2296, nome |-> "Ibitinga", estado |-> "MG"]>>),
          HttpOk(<<[id |-> 2296, nome |-> "Ibitinga", estado |-> "MG"]>>),
          HttpOk(<<>>),
          HttpAbort }]

SendForecastProviders ==
    { [id \in {Places.Ibitinga.id, 2296} |-> resp] :
        resp \in { HttpOk(ForecastOf(Places.Ibitinga)),
                   HttpOk(WeatherForecastResult("Ibitinga", "SP", "2025-08-01",
                                                None)),
                   HttpBadJson } }

\* the conversation so far: none, or one turn that reported an address
PriorConversations ==
    { <<>>,
      << [role |-> "user",
          content |-> Message(Places.Ibitinga.zipcode, FALSE, FALSE, None, "",
                              FALSE, FALSE, "")],
         [role |-> "assistant",
          content |-> [Blank EXCEPT !.kind = "cep",
                                    !.cep = Some(AddressOf(Places.Ibitinga))]] >> }

InitSend ==
    /\ aiAvailable = FALSE
    /\ FreshCall
    /\ earlier = None
    /\ text = <<>>
    /\ extracted = None
    /\ NoRequests
    /\ messagesTable \in PriorConversations
    /\ sendMessage = NotCalled
    /\ messages = InitialMessages
    /\ submitted = NotSubmitted

NextSend ==
    \E message \in SendMessages, conversation \in {<<>>, Conversation},
       addressProvider \in SendAddressProviders,
       cityProvider \in SendCityProviders,
       forecastProvider \in SendForecastProviders,
       aiText \in {"", "Posso ajudar com CEPs e previsão do tempo."} :
        /\ ~sendMessage.called
        /\ SendMessage(message, conversation, addressProvider, cityProvider,
                       forecastProvider, aiText)

SpecSend == InitSend /\ [][NextSend]_vars

(***************************************************************************)
(* A conversation of several turns, in which each turn asks for the        *)
(* address of one of two ZIP codes, asks for the forecast without naming   *)
(* a place, or says something else, and the providers answer.              *)
(***************************************************************************)
\* how many turns a conversation has
MaxTurns == 7

ChatMessages ==
    { Message(Places.Ibitinga.zipcode, FALSE, FALSE, None, "", FALSE, FALSE, ""),
      Message(Places.SaoPaulo.zipcode, FALSE, FALSE, None, "", FALSE, FALSE, ""),
      Message("", TRUE, FALSE, None, "", TRUE, FALSE, ""),
      Message("", FALSE, FALSE, None, "", FALSE, FALSE, "") }

ChatAddressProvider ==
    [zipcode \in {Places.Ibitinga.zipcode, Places.SaoPaulo.zipcode} |->
        HttpOk(AddressOf(PlaceWith("zipcode", zipcode)))]

ChatCityProvider ==
    [name \in {Places.Ibitinga.nome, Places.SaoPaulo.nome} |->
        HttpOk(<<CityOf(PlaceWith("nome", name))>>)]

ChatForecastProvider ==
    [id \in {Places.Ibitinga.id, Places.SaoPaulo.id} |->
        HttpOk(ForecastOf(PlaceWith("id", id)))]

NextChat ==
    \E message \in ChatMessages :
        /\ Len(messagesTable) < 2 * MaxTurns
        /\ SendMessage(message, Conversation, ChatAddressProvider,
                       ChatCityProvider, ChatForecastProvider,
                       "Posso ajudar com CEPs e previsão do tempo.")

SpecChat == InitAtRest /\ [][NextChat]_vars

(***************************************************************************)
(* The chat view over several turns.  What a text is to handleSubmit is    *)
(* what its three tests find, part_005:224-235; the answer of              *)
(* SISTEMA_INTELIGENTE is about the place the input was enriched with,     *)
(* when it was, and about either place otherwise.                          *)
(***************************************************************************)
\* how many times the user submits
MaxSubmits == 3

ViewInputs ==
    [isWeatherQuery : BOOLEAN, hasSpecificCity : BOOLEAN,
     isContextualRequest : BOOLEAN]

Response(said, zd, wd, cf) ==
    [action |-> said.action, initialMessage |-> said.initialMessage,
     finalMessage |-> said.finalMessage, zipCodeData |-> zd,
     weatherData |-> wd, citiesFound |-> cf]

\* the outcomes of execute about one place
ResponsesAbout(place) ==
    { Response(ZipConsulted, Some(ToZipCodeData(AddressOf(place))), None, None),
      Response(WeatherConsulted, None, Some(ToWeatherData(ForecastOf(place))),
               None),
      Response(ZipAndWeatherConsulted, Some(ToZipCodeData(AddressOf(place))),
               Some(ToWeatherData(ForecastOf(place))), None),
      Response(CityNotFound(place.nome), None, None, None),
      Response(MultipleCitiesFound(place.nome), None, None,
               Some(ToCitiesFound(<<CityOf(place)>>))) }

ViewResponses ==
    IF IsSome(submitted.enrichedWith)
    THEN ResponsesAbout(PlaceWith("nome", Get(submitted.enrichedWith).city))
    ELSE ResponsesAbout(Places.Ibitinga) \cup ResponsesAbout(Places.SaoPaulo)
            \cup { Response(ContextQueryDetected, None, None, None),
                   Response(OutOfScope, None, None, None) }

NextView ==
    \/ \E input \in ViewInputs :
          /\ Cardinality({ i \in 1..Len(messages) :
                             messages[i].role = "user" }) < MaxSubmits
          /\ HandleSubmit(input)
    \/ \E response \in {None} \cup { Some(r) : r \in ViewResponses } :
          MutationSettles(response)

SpecView == InitAtRest /\ [][NextView]_vars

(***************************************************************************)
(* Vocabulary of the properties.                                           *)
(***************************************************************************)
Done == pc = "done"

CallsTo(fn) == { k \in 1..Len(calls) : calls[k].fn = fn }

\* the k-th provider request has been answered, with a failure
Failed(k) == k \in 1..Len(replies) /\ ~replies[k].ok

\* getAddress is the first request of the scenarios that make it
GetAddressReturned == Len(replies) >= 1 /\ calls[1].fn = "postcode"
GetAddressSucceeded == GetAddressReturned /\ replies[1].ok
GetAddressFailed == GetAddressReturned /\ ~replies[1].ok

\* searchCities has answered with a list
SearchAt(k) ==
    k \in 1..Len(replies) /\ calls[k].fn = "searchCity" /\ replies[k].ok

\* the candidates of the list whose state is `state`, whatever the case
Matching(list, state) ==
    { i \in 1..Len(list) : toLowerCase(list[i].estado) = toLowerCase(state) }

\* the candidates that remain once the optional state filter is applied
Remaining(list, state) ==
    IF state = "" THEN 1..Len(list) ELSE Matching(list, state)

IsErrorOutcome == raised \/ action = Actions.OUT_OF_SCOPE

HoldsAddress(body) ==
    /\ IsSome(zipCodeData)
    /\ Get(zipCodeData).zipcode = body.cep
    /\ Get(zipCodeData).state = body.state
    /\ Get(zipCodeData).city = body.city

HoldsForecast(body) ==
    /\ IsSome(weatherData)
    /\ Get(weatherData).city = body.cidade
    /\ Get(weatherData).state = body.estado
    /\ Len(Get(weatherData).weather) = Len(Get(body.clima))

(***************************************************************************)
(* C1. Degrade-not-discard: in the ZIP_AND_FORECAST scenario, once         *)
(* getAddress has succeeded, the outcome returned holds the address and is *)
(* not an error outcome, whatever searchCities and getForecast answer.     *)
(***************************************************************************)
C1_DegradeNotDiscard ==
    (Done /\ scenario = 1 /\ GetAddressSucceeded) =>
        /\ HoldsAddress(Get(replies[1].value))
        /\ ~IsErrorOutcome

\* the address was obtained, the city search then failed
C1_Witness ==
    /\ Done /\ scenario = 1 /\ GetAddressSucceeded
    /\ Failed(2)
    /\ IsSome(zipCodeData)

(***************************************************************************)
(* C2. Every outcome returned has an action that is one of the defined     *)
(* action tags, and a non-empty initialMessage and finalMessage.           *)
(***************************************************************************)
C2_OutcomeWellFormed ==
    Done =>
        /\ action \in ActionTags
        /\ initialMessage # <<>>
        /\ finalMessage # <<>>

(***************************************************************************)
(* C3. In the ZIP_AND_FORECAST scenario, when getAddress fails the outcome *)
(* is the error outcome carrying that error, with no address and no        *)
(* forecast, and neither searchCities nor getForecast is ever called.      *)
(***************************************************************************)
C3_AddressFailureFailsScenario ==
    (scenario = 1 /\ GetAddressFailed) =>
        /\ Done
        /\ ~raised
        /\ action = Actions.OUT_OF_SCOPE
        /\ initialMessage =
              <<"Erro ao consultar CEP e previsão: ">> \o replies[1].error
        /\ zipCodeData = None
        /\ weatherData = None
        /\ CallsTo("searchCity") = {}
        /\ CallsTo("forecast") = {}

C3_Witness ==
    /\ Done /\ scenario = 1 /\ GetAddressFailed
    /\ action = Actions.OUT_OF_SCOPE

(***************************************************************************)
(* C4. As claimed: resolve never lets an exception out, and every provider *)
(* failure gives the action OUT_OF_SCOPE with an error-describing message. *)
(***************************************************************************)
C4_EveryFailureIsOutOfScope ==
    Done =>
        /\ ~raised
        /\ (\E k \in 1..Len(replies) : Failed(k)) =>
              (action = Actions.OUT_OF_SCOPE /\ initialMessage # <<>>)

\* the failures execute reports: getAddress, and searchCities when it is
\* the first call of the scenario
Reported(k) ==
    \/ calls[k].fn = "postcode"
    \/ calls[k].fn = "searchCity" /\ scenario \in {3, 4}

\* initialMessage is the scenario's prefix followed by the error's text
DescribesError(k) ==
    /\ Len(initialMessage) > 1
    /\ SubSeq(initialMessage, 2, Len(initialMessage)) = replies[k].error
    /\ finalMessage # <<>>

(***************************************************************************)
(* C4, amended. resolve never lets an exception out.  A failure of         *)
(* getAddress, or of searchCities in the FORECAST and CONTEXTUAL           *)
(* scenarios, gives the action OUT_OF_SCOPE with a message describing the  *)
(* error; a failure of searchCities in ZIP_AND_FORECAST or of getForecast  *)
(* is absorbed and does not give OUT_OF_SCOPE.                             *)
(***************************************************************************)
C4_NeverThrows ==
    /\ ~raised
    /\ Done =>
          \A k \in 1..Len(replies) :
              Failed(k) =>
                  IF Reported(k)
                  THEN action = Actions.OUT_OF_SCOPE /\ DescribesError(k)
                  ELSE action # Actions.OUT_OF_SCOPE

\* a city search that fails in the FORECAST scenario
C4_Witness ==
    /\ Done /\ scenario = 3 /\ Failed(1)
    /\ action = Actions.OUT_OF_SCOPE

(***************************************************************************)
(* C5. In the FORECAST scenario, whenever more than one candidate remains  *)
(* (no state supplied, or a state that still leaves several), the action   *)
(* is MULTIPLE_CITIES with the candidates attached, getForecast is not     *)
(* called and there is no forecast.                                        *)
(***************************************************************************)
C5_SeveralCandidatesAreOffered ==
    (Done /\ scenario = 3 /\ SearchAt(1)
          /\ Cardinality(Remaining(Get(replies[1].value), stateName)) > 1) =>
        /\ action = Actions.MULTIPLE_CITIES
        /\ IsSome(citiesFound)
        /\ CallsTo("forecast") = {}
        /\ weatherData = None

\* the cap of the list of candidates shown to the user
CandidateCap == 5

Min(a, b) == IF a < b THEN a ELSE b

(***************************************************************************)
(* C6. Whenever the action is MULTIPLE_CITIES, cityCandidates holds the    *)
(* first min(5, n) candidates of the provider's list, in its order.        *)
(***************************************************************************)
C6_CandidatesCappedAtFive ==
    (Done /\ action = Actions.MULTIPLE_CITIES) =>
        LET list == Get(replies[1].value)
            shown == Min(CandidateCap, Len(list))
        IN
        /\ IsSome(citiesFound)
        /\ Len(Get(citiesFound)) = shown
        /\ \A i \in 1..shown :
              /\ Get(citiesFound)[i].id = list[i].id
              /\ Get(citiesFound)[i].name = list[i].nome
              /\ Get(citiesFound)[i].state = list[i].estado

(***************************************************************************)
(* C7. In the FORECAST scenario, when exactly one candidate remains after  *)
(* the optional, case-insensitive state filter, getForecast is called      *)
(* exactly once, with that candidate's id, and if it succeeds the action   *)
(* is CONSULT_WEATHER_DIRECT with the forecast and no cityCandidates.      *)
(***************************************************************************)
C7_SingleCandidateForecast ==
    (scenario = 3 /\ SearchAt(1)
        /\ Cardinality(Remaining(Get(replies[1].value), stateName)) = 1) =>
        LET list == Get(replies[1].value)
            only == CHOOSE i \in Remaining(list, stateName) : TRUE
        IN
        /\ Cardinality(CallsTo("forecast")) = 1
        /\ calls[2].fn = "forecast"
        /\ calls[2].cityCode = list[only].id
        /\ (Done /\ ~Failed(2)) =>
              /\ action = Actions.CONSULT_WEATHER_DIRECT
              /\ HoldsForecast(Get(replies[2].value))
              /\ citiesFound = None

\* the state was given in another case than the provider's
C7_Witness ==
    /\ Done /\ scenario = 3 /\ SearchAt(1)
    /\ stateName = "sp"
    /\ Len(Get(replies[1].value)) > 1
    /\ action = Actions.CONSULT_WEATHER_DIRECT
    /\ IsSome(weatherData)

(***************************************************************************)
(* C8. In the ZIP_AND_FORECAST scenario, the action is                     *)
(* CONSULT_ZIP_CODE_AND_WEATHER with both the address and the forecast     *)
(* exactly when getAddress succeeds, exactly one candidate of searchCities *)
(* matches the address state and getForecast for its id succeeds.          *)
(***************************************************************************)
C8_ZipAndWeatherExactlyWhen ==
    (Done /\ scenario = 1) =>
        ( (/\ action = Actions.CONSULT_ZIP_CODE_AND_WEATHER
           /\ IsSome(zipCodeData)
           /\ IsSome(weatherData))
          <=>
          (/\ GetAddressSucceeded
           /\ SearchAt(2)
           /\ LET list == Get(replies[2].value)
                  state == Get(replies[1].value).state
              IN /\ Cardinality(Matching(list, state)) = 1
                 /\ Len(replies) = 3
                 /\ calls[3].fn = "forecast"
                 /\ calls[3].cityCode =
                       list[CHOOSE i \in Matching(list, state) : TRUE].id
                 /\ replies[3].ok) )

C8_Witness ==
    /\ Done /\ scenario = 1
    /\ action = Actions.CONSULT_ZIP_CODE_AND_WEATHER
    /\ HoldsAddress(Get(replies[1].value))
    /\ HoldsForecast(Get(replies[3].value))

(***************************************************************************)
(* C9. In the ZIP scenario, when getAddress succeeds the action is         *)
(* CONSULT_ZIP_CODE with the address, no forecast and no cityCandidates;   *)
(* the address provider was called once and no other provider was called.  *)
(***************************************************************************)
C9_ZipOnly ==
    (Done /\ scenario = 2 /\ GetAddressSucceeded) =>
        /\ action = Actions.CONSULT_ZIP_CODE
        /\ HoldsAddress(Get(replies[1].value))
        /\ weatherData = None
        /\ citiesFound = None
        /\ Cardinality(CallsTo("postcode")) = 1
        /\ Len(calls) = 1

C9_Witness ==
    /\ Done /\ scenario = 2 /\ GetAddressSucceeded
    /\ userInput.extractZipCode # ""
    /\ ~userInput.hasWeatherKeyword
    /\ action = Actions.CONSULT_ZIP_CODE

C11_NoCandidateIsCityNotFound ==
    (scenario = 3 /\ SearchAt(1)
        /\ Remaining(Get(replies[1].value), stateName) = {}) =>
        /\ Done
        /\ ~raised
        /\ action = Actions.CITY_NOT_FOUND
        /\ CallsTo("forecast") = {}
        /\ weatherData = None
        /\ citiesFound = None

\* the provider answered candidates, none of them in the state supplied
C11_Witness ==
    /\ Done /\ scenario = 3 /\ SearchAt(1)
    /\ Len(Get(replies[1].value)) > 1
    /\ stateName # ""
    /\ Remaining(Get(replies[1].value), stateName) = {}
    /\ action = Actions.CITY_NOT_FOUND

(***************************************************************************)
(* C12. In the FORECAST scenario, when exactly one candidate remains and   *)
(* getForecast fails (error, timeout, not found or incomplete data),       *)
(* resolve does not fail: the outcome is CITY_NOT_FOUND with no forecast.  *)
(***************************************************************************)
C12_ForecastFailureIsCityNotFound ==
    (Done /\ scenario = 3 /\ SearchAt(1)
        /\ Cardinality(Remaining(Get(replies[1].value), stateName)) = 1
        /\ Failed(2)) =>
        /\ ~raised
        /\ action = Actions.CITY_NOT_FOUND
        /\ initialMessage # <<>> /\ finalMessage # <<>>
        /\ weatherData = None
        /\ citiesFound = None

\* the weather provider answered 200 with a body that lacks a field
C12_Witness ==
    /\ Done /\ scenario = 3 /\ SearchAt(1)
    /\ Len(replies) = 2 /\ calls[2].fn = "forecast"
    /\ replies[2].error = <<"Dados incompletos da API de previsão do tempo">>
    /\ action = Actions.CITY_NOT_FOUND

(***************************************************************************)
(* C13. In the FORECAST scenario, when the interpretation supplies no city *)
(* and neither extractCityAndState nor extractBestCityName finds one, the  *)
(* action is REQUEST_LOCATION and no provider is called.                   *)
(***************************************************************************)
C13_NoCityRequestsLocation ==
    (/\ scenario = 3
     /\ interpretation.cidade = ""
     /\ ~IsSome(userInput.extractCityAndState)
     /\ userInput.extractBestCityName = "") =>
        /\ Done
        /\ action = Actions.REQUEST_LOCATION
        /\ calls = <<>>
        /\ zipCodeData = None /\ weatherData = None /\ citiesFound = None

\* the AI said FORECAST and named a state but no city
C13_Witness ==
    /\ Done /\ scenario = 3
    /\ interpretation.tipo = "CLIMA"
    /\ interpretation.cidade = "" /\ interpretation.estado # ""
    /\ userInput.extractBestCityName = ""
    /\ ~IsSome(userInput.extractCityAndState)
    /\ action = Actions.REQUEST_LOCATION

(***************************************************************************)
(* Vocabulary of the properties of two calls on the same text.             *)
(***************************************************************************)
SecondCallDone == Done /\ IsSome(earlier)

First == Get(earlier)

\* the two outcomes have the same action and attach the same records
SameShape ==
    /\ action = First.action
    /\ (zipCodeData = None) <=> (First.zipCodeData = None)
    /\ (weatherData = None) <=> (First.weatherData = None)
    /\ (citiesFound = None) <=> (First.citiesFound = None)

\* the two calls returned the same outcome, field by field
SameOutcome ==
    /\ raised = First.raised
    /\ action = First.action
    /\ executedAction = First.executedAction
    /\ initialMessage = First.initialMessage
    /\ finalMessage = First.finalMessage
    /\ zipCodeData = First.zipCodeData
    /\ weatherData = First.weatherData
    /\ citiesFound = First.citiesFound

\* the AI race of the current call produced no structured object
NoAiObject ==
    ~(IsSome(aiInterpretation) /\ IsSome(Get(aiInterpretation).object))

(***************************************************************************)
(* C14. When a city is extractable, the CONTEXTUAL scenario yields the     *)
(* same action and the same presence of forecast and cityCandidates as the *)
(* FORECAST scenario run on the same text with that city, the providers    *)
(* answering alike.  The first call is the FORECAST one (the AI said       *)
(* FORECAST and named no city), the second the CONTEXTUAL one.             *)
(***************************************************************************)
C14_ContextualAsForecast ==
    (/\ SecondCallDone
     /\ First.scenario = 3 /\ First.interpretation.cidade = ""
     /\ scenario = 4
     /\ cityName # "" /\ cityName = First.cityName) =>
        /\ action = First.action
        /\ (weatherData = None) <=> (First.weatherData = None)
        /\ (citiesFound = None) <=> (First.citiesFound = None)

(***************************************************************************)
(* C15. When the interpretation is CONTEXTUAL and no city can be extracted *)
(* (the text holds no ZIP code either, and the AI named no city), resolve  *)
(* calls no provider and returns the action CONTEXT_QUERY, which is        *)
(* neither REQUEST_LOCATION nor OUT_OF_SCOPE, weather keyword or not.      *)
(***************************************************************************)
C15_ContextualWithoutCityIsContextQuery ==
    (/\ Done
     /\ interpretation.tipo = "CONTEXTUAL"
     /\ interpretation.cidade = ""
     /\ userInput.extractZipCode = ""
     /\ ~IsSome(userInput.extractCityAndState)
     /\ userInput.extractBestCityName = "") =>
        /\ calls = <<>>
        /\ action = "CONTEXT_QUERY"
        /\ action \notin {Actions.REQUEST_LOCATION, Actions.OUT_OF_SCOPE}

AiErrorTexts == {"AI error", "AI timeout"}

C17_AiFailureAsNoAi ==
    (SecondCallDone /\ ~First.aiAvailable /\ aiAvailable /\ NoAiObject) =>
        /\ SameOutcome
        /\ calls = First.calls
        /\ \A i \in 1..Len(initialMessage) : initialMessage[i] \notin AiErrorTexts
        /\ \A i \in 1..Len(finalMessage) : finalMessage[i] \notin AiErrorTexts

\* no AI in the first call; in the second the AI failed and the providers
\* were then called as in the first
C17_Witness ==
    /\ SecondCallDone /\ ~First.aiAvailable /\ aiAvailable
    /\ aiInterpretation = None
    /\ Len(calls) = 3 /\ calls = First.calls
    /\ IsSome(weatherData) /\ weatherData = First.weatherData

(***************************************************************************)
(* C18. The user-facing messages (initialMessage, finalMessage) of every   *)
(* outcome hold no raw HTTP status code, whatever failure the providers    *)
(* answer with, non-2xx responses other than 404 included.  (An Error of   *)
(* the model is its message: no stack trace exists to be shown.)           *)
(***************************************************************************)
HttpStatusCodes == { r.status : r \in { x \in HttpFailures : x.kind = "status" } }

C18_NoStatusCodeInMessages ==
    Done =>
        /\ \A i \in 1..Len(initialMessage) : initialMessage[i] \notin HttpStatusCodes
        /\ \A i \in 1..Len(finalMessage) : finalMessage[i] \notin HttpStatusCodes

(***************************************************************************)
(* Vocabulary of the properties of ZIP codes.                              *)
(***************************************************************************)
AllDigits(chars) == \A i \in 1..Len(chars) : chars[i] \in Digits

\* the characters of the cep values the address provider answers with
Characters(cep) ==
    CASE cep = "01310100" -> <<"0", "1", "3", "1", "0", "1", "0", "0">>
      [] cep = "01310-100" -> <<"0", "1", "3", "1", "0", "-", "1", "0", "0">>
      [] OTHER -> <<>>

(***************************************************************************)
(* C19. The zipCode of every address attached to an outcome is exactly 8   *)
(* ASCII digits, whatever format the provider uses in its cep field.       *)
(***************************************************************************)
C19_ZipCodeIsEightDigits ==
    (Done /\ IsSome(zipCodeData)) =>
        /\ Len(Characters(Get(zipCodeData).zipcode)) = ZipLength
        /\ AllDigits(Characters(Get(zipCodeData).zipcode))

(***************************************************************************)
(* C20. extractZipCode round trip: for every string D of exactly 8 digits  *)
(* extractZipCode(D) = D, and for the same digits written DDDDD-DDD or     *)
(* DDDDD DDD the result is the 8 digits alone.                             *)
(***************************************************************************)
C20_ExtractZipCodeRoundTrip ==
    Done =>
        /\ (Len(text) = 8 /\ AllDigits(text)) => extracted = Some(text)
        /\ (/\ Len(text) = 9
            /\ text[6] \in {"-", " "}
            /\ AllDigits(SubSeq(text, 1, 5)) /\ AllDigits(SubSeq(text, 7, 9))) =>
                extracted = Some(SubSeq(text, 1, 5) \o SubSeq(text, 7, 9))

\* a code with a leading zero, written with a space
C20_Witness ==
    /\ Done
    /\ text = <<"0", "1", "1", "1", "0", " ", "1", "0", "0">>
    /\ extracted = Some(<<"0", "1", "1", "1", "0", "1", "0", "0">>)

(***************************************************************************)
(* C21. A text that is one run of 9 or more digits, with no hyphen or      *)
(* space that would shape a ZIP code inside it (a 10-digit phone number),  *)
(* gives none.                                                             *)
(***************************************************************************)
C21_LongDigitRunGivesNone ==
    (Done /\ Len(text) >= 9 /\ AllDigits(text)) => extracted = None

\* the scenario each kind names: ZIP_AND_FORECAST, ZIP, FORECAST, CONTEXTUAL,
\* OUT_OF_SCOPE, in the order of the chain
ScenarioOfKind ==
    [CEP_E_CLIMA |-> 1, CEP |-> 2, CLIMA |-> 3, CONTEXTUAL |-> 4, OUTROS |-> 5]

\* the scenario the extractors and the contextual flags alone point to
ScenarioOfExtractors ==
    IF userInput.extractZipCode # "" /\ userInput.hasWeatherKeyword THEN 1
    ELSE IF userInput.extractZipCode # "" THEN 2
    ELSE IF userInput.hasWeatherKeyword THEN 3
    ELSE IF interpretation.contextual \/ userInput.isContextualWeatherQuery
    THEN 4
    ELSE 5

\* the AI answered with an object before the timer
AiSucceeded == Done /\ ~NoAiObject

AiGaveNothing == scenario # 0 /\ NoAiObject

(***************************************************************************)
(* C23. When the AI call fails, times out or is not configured, the kind   *)
(* of the Interpretation comes from the extractors alone: ZIP code and     *)
(* weather keyword give ZIP_AND_FORECAST, a ZIP code alone ZIP, a weather  *)
(* keyword alone FORECAST, neither OUT_OF_SCOPE; and the contextual flag   *)
(* is isContextualWeatherQuery(input) for every kind.                      *)
(***************************************************************************)
C23_FallbackFromExtractors ==
    AiGaveNothing =>
        LET zip == userInput.extractZipCode # ""
            keyword == userInput.hasWeatherKeyword
        IN /\ (zip /\ keyword) => interpretation.tipo = "CEP_E_CLIMA"
           /\ (zip /\ ~keyword) => interpretation.tipo = "CEP"
           /\ (~zip /\ keyword) => interpretation.tipo = "CLIMA"
           /\ (~zip /\ ~keyword) => interpretation.tipo = "OUTROS"
           /\ interpretation.contextual = userInput.isContextualWeatherQuery

\* the AI is configured and its call failed, on a text with a ZIP code, a
\* weather keyword and a contextual phrasing
C23_Witness ==
    /\ Done
    /\ aiAvailable /\ aiInterpretation = None
    /\ userInput.extractZipCode # "" /\ userInput.hasWeatherKeyword
    /\ userInput.isContextualWeatherQuery
    /\ interpretation.tipo = "CEP_E_CLIMA" /\ interpretation.contextual

\* the answers of the two providers that are successful responses whose body
\* lacks a required field
IncompleteAddress(resp) ==
    /\ resp.kind = "ok"
    /\ \/ Get(resp.body).cep = ""
       \/ Get(resp.body).state = ""
       \/ Get(resp.body).city = ""

IncompleteForecast(resp) ==
    /\ resp.kind = "ok"
    /\ \/ Get(resp.body).cidade = ""
       \/ Get(resp.body).estado = ""
       \/ ~IsSome(Get(resp.body).clima)

\* the k-th provider request was `fn` and failed as data-incomplete
FailedIncomplete(k, fn) ==
    /\ k \in 1..Len(replies)
    /\ calls[k].fn = fn
    /\ ~replies[k].ok
    /\ replies[k].error \in {<<"Dados incompletos da API">>,
                             <<"Dados incompletos da API de previsão do tempo">>}

(***************************************************************************)
(* C27. Every address attached to an outcome has a non-empty zip code,     *)
(* state and city, every forecast a non-empty city and state and a         *)
(* sequence of days; a successful response that lacks one of these fields  *)
(* makes the provider call fail as data-incomplete, and every record a     *)
(* provider call returns has them all.                                     *)
(***************************************************************************)
C27_RecordsAreComplete ==
    /\ \A resp \in AddressReplies :
          IncompleteAddress(resp) =>
              postcode(resp) = Err(<<"Dados incompletos da API">>)
    /\ \A resp \in ForecastReplies :
          IncompleteForecast(resp) =>
              forecast(resp) =
                  Err(<<"Dados incompletos da API de previsão do tempo">>)
    /\ \A k \in 1..Len(replies) :
          /\ (calls[k].fn = "postcode" /\ replies[k].ok) =>
                ~IncompleteAddress(HttpOk(Get(replies[k].value)))
          /\ (calls[k].fn = "forecast" /\ replies[k].ok) =>
                ~IncompleteForecast(HttpOk(Get(replies[k].value)))
    /\ IsSome(zipCodeData) =>
          /\ Get(zipCodeData).zipcode # ""
          /\ Get(zipCodeData).state # ""
          /\ Get(zipCodeData).city # ""
    /\ IsSome(weatherData) =>
          /\ Get(weatherData).city # ""
          /\ Get(weatherData).state # ""
          /\ DOMAIN Get(weatherData).weather =
                1..Len(Get(weatherData).weather)

\* the address is complete and attached, the forecast's answer lacks a field:
\* the forecast call fails as data-incomplete and no forecast is attached
C27_Witness ==
    /\ Done /\ scenario = 1
    /\ IsSome(zipCodeData) /\ Get(zipCodeData).city # ""
    /\ FailedIncomplete(3, "forecast")
    /\ weatherData = None

(***************************************************************************)
(* C25. Every request made to the address provider carries a zip code of   *)
(* exactly 8 digits: when the scenario is ZIP or ZIP_AND_FORECAST and no   *)
(* zip code is available, execute fails before any request is made.        *)
(***************************************************************************)
C25_AddressCallsCarryEightDigits ==
    \A k \in CallsTo("postcode") :
        /\ Len(Characters(calls[k].zipcode)) = ZipLength
        /\ AllDigits(Characters(calls[k].zipcode))

\* the race is decided and execute is past its await
RaceDecided == aiAvailable /\ scenario # 0

\* what execute holds once the race is decided is what the first settlement
\* gave: the AI's answer when the AI promise won, nothing when the race was
\* rejected, by the timer or by the AI promise, and then the interpretation
\* is the extractors'
FirstSettlementDecides ==
    RaceDecided =>
        /\ racePromise.state \in {"fulfilled", "rejected"}
        /\ aiInterpretation = racePromise.value
        /\ racePromise.state = "rejected" =>
              /\ NoAiObject
              /\ interpretation = TraditionalAnalysis(userInput)
        /\ racePromise.reason = <<"AI timeout">> =>
              timeoutPromise.state = "rejected"
        /\ racePromise.state = "fulfilled" => aiPromise = racePromise

\* a step in which the loser of the race settles
LoserSettles ==
    /\ RaceDecided
    /\ aiPromise' # aiPromise \/ timeoutPromise' # timeoutPromise

(***************************************************************************)
(* C24. Race between the AI classification and its timer: the first of the *)
(* two to settle decides the Interpretation; when the timer fires first    *)
(* the extractor fallback is used and an AI result that arrives later      *)
(* changes neither the Interpretation nor the outcome; when the AI settles *)
(* first the later firing of the timer changes nothing and raises no       *)
(* error.                                                                  *)
(***************************************************************************)
C24_LoserOfTheRaceIsDiscarded ==
    /\ [](FirstSettlementDecides /\ ~raised)
    /\ [][LoserSettles =>
            UNCHANGED <<pc, scenario, userInput, aiInterpretation,
                        interpretation, action, executedAction, initialMessage,
                        finalMessage, zipCodeData, weatherData, citiesFound,
                        calls, replies, raised, racePromise>>]_vars

\* the timer won, the fallback was used and execute returned; the AI then
\* answered with an object, which changed nothing
C24_Witness ==
    /\ Done
    /\ racePromise = Rejected(<<"AI timeout">>)
    /\ aiPromise.state = "fulfilled" /\ IsSome(Get(aiPromise.value).object)
    /\ NoAiObject
    /\ interpretation = TraditionalAnalysis(userInput)

(***************************************************************************)
(* C26. Every provider call owns its timeout: a call whose response,       *)
(* headers and body, is not fully received when the timeout expires is     *)
(* aborted and fails with a timeout error, so no call is still in flight   *)
(* after its timeout; and a call fails with a timeout error only when its  *)
(* own timeout has expired.                                                *)
(***************************************************************************)
C26_NoCallOutlivesItsTimeout ==
    \A i \in 1..MaxRequests :
        /\ InFlight(i) => requests[i].elapsed <= RequestTimeout
        /\ requests[i].result = "timeout" =>
              requests[i].elapsed >= RequestTimeout

\* the rows of the conversation when SEND_MESSAGE read its history: all of
\* them but the assistant's reply, which is inserted last
RowsAtRead == SubSeq(messagesTable, 1, Len(messagesTable) - 1)

\* the last 10 rows of a table
LastRows(table) ==
    SubSeq(table, IF Len(table) > HistoryLimit
                  THEN Len(table) - HistoryLimit + 1 ELSE 1, Len(table))

SendMessageReturned == sendMessage.called /\ ~sendMessage.raised

\* the content of the assistant's reply SEND_MESSAGE stored
StoredReply == messagesTable[Len(messagesTable)].content

(***************************************************************************)
(* C28. In SEND_MESSAGE, after any number of turns, the history read for   *)
(* context is the last 10 messages of the conversation, so the city taken  *)
(* from context is the one of the most recent assistant message, among     *)
(* those, that reports a CEP or a forecast.                                *)
(***************************************************************************)
C28_HistoryIsTheLastTen ==
    SendMessageReturned =>
        /\ sendMessage.messageHistory = LastRows(RowsAtRead)
        /\ sendMessage.lastCityContext =
              LastCityContextFrom(LastRows(RowsAtRead),
                                  Len(LastRows(RowsAtRead)))

(***************************************************************************)
(* C30. In SEND_MESSAGE, for a message with a ZIP code and a weather       *)
(* keyword, when the address lookup succeeds and no forecast is obtained,  *)
(* the stored assistant reply reports the address and is no general reply. *)
(***************************************************************************)
C30_AddressIsStillReported ==
    (/\ SendMessageReturned
     /\ sendMessage.message.extractZipCode # ""
     /\ sendMessage.message.hasWeatherKeyword
     /\ IsSome(sendMessage.result)
     /\ ~IsSome(Get(sendMessage.result).weather)) =>
        /\ StoredReply.kind # "general"
        /\ StoredReply.cep = Some(Get(sendMessage.result).zipcode)

\* the location of the most recent of the first i messages of `list` that
\* carries location data, an address or a forecast
RECURSIVE MostRecentLocation(_, _)
MostRecentLocation(list, i) ==
    IF i = 0 THEN None
    ELSE IF IsSome(list[i].data)
    THEN Some([city |-> Get(list[i].data).data.city,
               state |-> Get(list[i].data).data.state])
    ELSE MostRecentLocation(list, i - 1)

\* handleSubmit is at its await on a contextual weather query
ContextualQuerySubmitted ==
    /\ submitted.pending
    /\ submitted.input.isWeatherQuery
    /\ ~submitted.input.hasSpecificCity

(***************************************************************************)
(* C29. In the chat view, after any sequence of turns, a contextual        *)
(* weather query is enriched with the location of the most recent earlier  *)
(* message that carries location data, be it an address or a forecast.     *)
(***************************************************************************)
C29_EnrichedWithMostRecentLocation ==
    ContextualQuerySubmitted =>
        submitted.enrichedWith = MostRecentLocation(messages, Len(messages))

====
